---- MODULE Spec2Model ----
(***************************************************************************)
(* Model of recognizer/data/training_dataset.py: the curriculum scheduler  *)
(* (RecognizerTrainingDataset.generate), the sample iterator (__iter__)    *)
(* and the nine stage generators generate_stage_0 .. generate_stage_8.     *)
(*                                                                         *)
(* Real numbers are fixed-point: the stage field holds a numerator over    *)
(* StageDen, a random.random() draw holds a numerator over UnitDen.        *)
(* Images are records of what was drawn on them, not pixel arrays.         *)
(***************************************************************************)
EXTENDS Integers, Sequences, FiniteSets, TLC

VARIABLES
    stage,              \* self.stage, numerator over StageDen
    characters,         \* self.characters, the ordered character set
    font_infos,         \* self.font_infos, sequence of [path, supported_glyphs]
    size_cache,         \* per font path: the pixel sizes with a cached handle
    background_images,  \* self.background_images, sequence of <<width, height>>
    transform,          \* self.transform: "None" or "transform"
    iterator,           \* the generator object made by __iter__
    pc,                 \* position of the pull inside generate()
    low,                \* local low of generate()
    high,               \* local high of generate()
    selected,           \* local stage of generate() after the clamp
    draw,               \* the random.random() value used at line 544
    drawn_label,        \* the label (character_index) drawn by the stage generator, -1: none
    drawn_floating,     \* the floating_characters drawn by generate_stage_8
    result,             \* what generate() returned to the pull
    drawing,            \* the calls made on the ImageDraw of a helper run on its own
    frame,              \* the arguments and locals of the function call in progress
    files,              \* the files written under generated/training
    font_loads          \* the (font, size) pairs parsed by the font requests run on their own

vars == <<stage, characters, font_infos, size_cache, background_images,
          transform, iterator, pc, low, high, selected, draw, drawn_label,
          drawn_floating, result, drawing, frame, files, font_loads>>

catalogs == <<characters, font_infos, background_images, transform>>
locals == <<low, high, selected, draw, drawn_label, drawn_floating>>
\* what the helpers and the preview script work on
helpers == <<drawing, frame, files, font_loads>>

----------------------------------------------------------------------------
(* Bounds of the model *)

StageDen == 2
UnitDen == 20
MaxStageValue == 9
MaxContext == 1

(* Program constants *)

MaxStage == 8
CanvasSize == 128
Center == 64
FixedFontSize == 32
SmallFontSize == 20
MinFontSize == 8
MaxContextCount == 10

StageValues == (0 - StageDen) .. (MaxStageValue * StageDen)
RandomDraws == {0, 1, UnitDen \div 2, UnitDen - 1}
SelectionDraws == {0, UnitDen - 1}
OffsetDraws == {0, UnitDen - 1}
RawFontSizes == {5}
ContextCounts == 0 .. (IF MaxContext < MaxContextCount THEN MaxContext ELSE MaxContextCount)

----------------------------------------------------------------------------
(* Arithmetic helpers *)

Min(a, b) == IF a < b THEN a ELSE b
Max(a, b) == IF a > b THEN a ELSE b

\* math.floor of the fixed-point value n / StageDen
Floor(n) == n \div StageDen

\* int() of the rational n / d, d > 0: truncation toward zero
Trunc(n, d) == IF n >= 0 THEN n \div d ELSE 0 - ((0 - n) \div d)

RECURSIVE SumSeq(_)
SumSeq(s) == IF s = <<>> THEN 0 ELSE Head(s) + SumSeq(Tail(s))

RECURSIVE MaxSeq(_)
MaxSeq(s) == IF s = <<>> THEN 0 ELSE Max(Head(s), MaxSeq(Tail(s)))

\* all sequences over S of length at most n
RECURSIVE SeqsUpTo(_, _)
SeqsUpTo(S, n) ==
    IF n = 0 THEN {<<>>}
    ELSE LET shorter == SeqsUpTo(S, n - 1)
         IN shorter \cup {Append(s, e) : s \in {t \in shorter : Len(t) = n - 1}, e \in S}

----------------------------------------------------------------------------
(* Fonts: ImageFont metrics as the generators read them through getbbox *)

\* advance of a glyph in quarters of the pixel size; "z" has an empty box
GlyphUnits(path, glyph) ==
    IF glyph = "z" THEN 0
    ELSE IF glyph = "a" THEN 2
    ELSE 4

\* font.getbbox(glyph, anchor='lt', language='ja') -> <<right, bottom>>
GlyphBBox(font, glyph) ==
    LET right == (GlyphUnits(font.path, glyph) * font.size) \div 4
    IN <<right, IF right = 0 THEN 0 ELSE font.size>>

\* font.getbbox(text, anchor='lt', language='ja') -> <<right, bottom>>
TextBBox(font, text) ==
    <<SumSeq([i \in 1..Len(text) |-> GlyphBBox(font, text[i])[1]]),
      MaxSeq([i \in 1..Len(text) |-> GlyphBBox(font, text[i])[2]])>>

\* font_info.get(font_size): the handle for (font, size)
FontGet(font_info, font_size) == [path |-> font_info.path, size |-> font_size]

\* (variant of CacheAfterGet: the new handle replaces the cached ones)
CacheAfterGetEvicting(cache, font_info, font_size) ==
    [cache EXCEPT ![font_info.path] = {font_size}]

\* the size cache after font_info.get(font_size)
CacheAfterGet(cache, font_info, font_size) ==
    [cache EXCEPT ![font_info.path] = @ \cup {font_size}]

\* self.fonts_supporting_glyph(glyph)
fonts_supporting_glyph(glyph) ==
    SelectSeq(font_infos, LAMBDA font : glyph \in font.supported_glyphs)

\* random.choice over a sequence: the set of values it can return
Choices(s) == {s[i] : i \in 1..Len(s)}

\* self.random_font_size(): int() of one of four normal draws
random_font_size == RawFontSizes

----------------------------------------------------------------------------
(* Images *)

NoResult == [kind |-> "pending"]
NoneResult == [kind |-> "None"]
\* detail: <<>> or the <<character, font path>> named by the diagnostic
ErrorResult(gen, what, detail) ==
    [kind |-> "error", gen |-> gen, error |-> what, diagnostic |-> detail]

\* Image.new('RGB', (128, 128), color) followed by the text draws
\* eaten: <<>> or the one eat_sides call made on the image
NewSample(background, draws, eaten) ==
    [mode |-> "RGB", size |-> <<CanvasSize, CanvasSize>>,
     background |-> background, draws |-> draws, eaten |-> eaten, transformed |-> 0]

\* one drawing.text(xy, text, font=font, anchor=anchor) call, or the
\* draw_outlined_text / draw_underlined_text call that wraps it; xy[1] is the
\* rational xy[1][1] / xy[1][2]; label_at is the position in text of the
\* labeled character (0: none of them)
TextDraw(xy, text, font, anchor, effect, label_at) ==
    [xy |-> xy, text |-> text, font |-> font, anchor |-> anchor, effect |-> effect,
     label_at |-> label_at]

\* generate_region_score(width, height, top_left, bottom_right)
generate_region_score(width, height) ==
    [mode |-> "L", size |-> <<width \div 2, height \div 2>>,
     shape |-> "rectangle", transformed |-> 0]

\* (variant of generate_only_char: the rectangle of generate_region_score is kept)
region_score_kept(xy, character, font) == generate_region_score(CanvasSize, CanvasSize)

\* generate_only_char(xy, character, font=font, fill, anchor='mm')
generate_only_char(xy, character, font) ==
    [mode |-> "L", size |-> <<CanvasSize, CanvasSize>>,
     shape |-> "glyph", xy |-> xy, text |-> <<character>>, font |-> font,
     anchor |-> "mm", transformed |-> 0]

\* self.transform(image)
ApplyTransform(image) == [image EXCEPT !.transformed = @ + 1]

\* (variant of ReturnSample: the region score is returned without the transform)
ReturnSampleImageOnly(gen, sample, label, region_score) ==
    IF transform = "None"
    THEN [kind |-> "sample", gen |-> gen, image |-> sample, label |-> label,
          region_score |-> region_score, transform_calls |-> <<>>]
    ELSE [kind |-> "sample", gen |-> gen, image |-> ApplyTransform(sample),
          label |-> label, region_score |-> region_score,
          transform_calls |-> <<"sample">>]

\* the return statement shared by all stage generators
ReturnSample(gen, sample, label, region_score) ==
    IF transform = "None"
    THEN [kind |-> "sample", gen |-> gen, image |-> sample, label |-> label,
          region_score |-> region_score, transform_calls |-> <<>>]
    ELSE [kind |-> "sample", gen |-> gen, image |-> ApplyTransform(sample),
          label |-> label, region_score |-> ApplyTransform(region_score),
          transform_calls |-> <<"sample", "region_score">>]

----------------------------------------------------------------------------
(* Shared steps of the stage generators *)

\* random.randrange(0, len(self.characters))
Labels == 0 .. (Len(characters) - 1)

\* self.characters[label]
CharacterAt(label) == characters[label + 1]

\* random.random() > 0.5 and random.random() > 0.9
Exceeds(u, num, den) == u * den > num * UnitDen

\* (variant of Offset: the factor 0.8 is left out)
OffsetUnscaled(num, den, u) == Trunc(num * (UnitDen - 2 * u), den * 2 * UnitDen)

\* int((extent / 2 - random.random() * extent) * 0.8), extent = num / den
Offset(num, den, u) == Trunc(num * (UnitDen - 2 * u) * 4, den * 2 * UnitDen * 5)

\* round() of the rational n / d, d > 0: ties go to the even integer
Round(n, d) ==
    LET f == n \div d
        twice == 2 * (n - f * d)
    IN IF twice < d THEN f
       ELSE IF twice > d THEN f + 1
       ELSE IF f % 2 = 0 THEN f ELSE f + 1

\* an exception leaves generate() and ends the generator of __iter__
Raise(gen, what, detail, cache, picked) ==
    /\ result' = ErrorResult(gen, what, detail)
    /\ drawn_label' = picked
    /\ size_cache' = cache
    /\ iterator' = "finished"
    /\ pc' = "idle"
    /\ low' = "none" /\ high' = "none" /\ selected' = "none" /\ draw' = "none"

\* a stage generator returns its triple to generate(), which returns it
Return(value, cache, picked) ==
    /\ result' = value
    /\ drawn_label' = picked
    /\ size_cache' = cache
    /\ iterator' = iterator
    /\ pc' = "returned"
    /\ low' = "none" /\ high' = "none" /\ selected' = "none" /\ draw' = "none"

\* stages 0..5: one glyph drawn with anchor 'mm' at (64 + x_offset, 64 + y_offset)
SingleGlyphSample(gen, label, font, background, x_offset, y_offset) ==
    LET character == CharacterAt(label)
        xy == <<<<Center + x_offset, 1>>, Center + y_offset>>
        sample == NewSample(background, <<TextDraw(xy, <<character>>, font, "mm", "none", 1)>>, <<>>)
        rectangle == generate_region_score(CanvasSize, CanvasSize)
        region_score == generate_only_char(xy, character, font)
    IN ReturnSample(gen, sample, label, region_score)

----------------------------------------------------------------------------
(* The state after RecognizerTrainingDataset.__init__ *)

\* a catalog of one font: "a" is supported, "c" by no font
SmallCharacters == <<"a", "c">>
SmallFonts == <<[path |-> "F1", supported_glyphs |-> {"a"}]>>

\* a catalog of two fonts; "a" and "b" differ in width, "c" is supported by no font
MainCharacters == <<"a", "b", "c">>
MainFonts == <<[path |-> "F1", supported_glyphs |-> {"a", "b"}],
               [path |-> "F2", supported_glyphs |-> {"b"}]>>
MainBackgrounds == <<<<4, 3>>>>

EmptyCache == [path \in {"F1", "F2"} |-> {}]

\* no helper is run on its own and the preview script is not running
NoCall == [call |-> "none"]
NoHelpers ==
    /\ drawing = <<>>
    /\ frame = NoCall
    /\ files = {}
    /\ font_loads = <<>>

Init ==
    /\ stage = 0
    /\ characters = SmallCharacters
    /\ font_infos = SmallFonts
    /\ size_cache = EmptyCache
    /\ background_images = MainBackgrounds
    /\ transform \in {"None", "transform"}
    /\ iterator = "suspended"
    /\ pc = "idle"
    /\ low = "none" /\ high = "none" /\ selected = "none" /\ draw = "none"
    /\ drawn_label = -1
    /\ drawn_floating = <<>>
    /\ result = NoResult
    /\ NoHelpers

----------------------------------------------------------------------------
(* The training driver and the iterator *)

\* dataset.stage = s, between two pulls
SetStage ==
    /\ pc = "idle"
    /\ \E s \in StageValues : stage' = s
    /\ UNCHANGED <<catalogs, helpers, size_cache, iterator, pc, locals, result>>

\* iter(dataset): a fresh generator object
NewIterator ==
    /\ pc = "idle"
    /\ iterator = "finished"
    /\ iterator' = "suspended"
    /\ result' = NoResult
    /\ drawn_label' = -1
    /\ drawn_floating' = <<>>
    /\ UNCHANGED <<stage, catalogs, helpers, size_cache, pc, low, high, selected, draw>>

\* next(iterator) enters generate(): low = math.floor(self.stage); high = low + 1
GenerateLow ==
    /\ pc = "idle"
    /\ iterator = "suspended"
    /\ low' = Floor(stage)
    /\ high' = Floor(stage) + 1
    /\ pc' = "draw"
    /\ result' = NoResult
    /\ drawn_label' = -1
    /\ drawn_floating' = <<>>
    /\ UNCHANGED <<stage, catalogs, helpers, size_cache, iterator, selected, draw>>

\* (variant of DrawExceeds: the comparison is >= instead of >)
DrawAtLeast(s, u) == u * StageDen >= (s - StageDen * Floor(s)) * UnitDen

\* the branch taken at line 544 for the stage field s and the draw u:
\* random.random() > self.stage - math.floor(self.stage)
DrawExceeds(s, u) == u * StageDen > (s - StageDen * Floor(s)) * UnitDen

\* if random.random() > self.stage - math.floor(self.stage): stage = low
\* else: stage = high
GenerateChoose ==
    /\ pc = "draw"
    /\ \E u \in SelectionDraws :
        /\ draw' = u
        /\ selected' = IF DrawExceeds(stage, u) THEN low ELSE high
    /\ pc' = "clamp"
    /\ UNCHANGED <<stage, catalogs, helpers, size_cache, iterator, low, high, drawn_label,
                   drawn_floating, result>>

\* (variant of ClampStage: the clamp is one stage too high)
ClampStageAboveMax(chosen) == Min(chosen, MaxStage + 1)

\* stage = min(stage, 8)
ClampStage(chosen) == Min(chosen, MaxStage)

\* (variant of GenerateClamp: the clamped stage is written to self.stage)
GenerateClampIntoField ==
    /\ pc = "clamp"
    /\ selected' = ClampStage(selected)
    /\ stage' = ClampStage(selected) * StageDen
    /\ draw' = "none"
    /\ pc' = "dispatch"
    /\ UNCHANGED <<catalogs, helpers, size_cache, iterator, low, high, drawn_label,
                   drawn_floating, result>>

GenerateClamp ==
    /\ pc = "clamp"
    /\ selected' = ClampStage(selected)
    /\ draw' = "none"
    /\ pc' = "dispatch"
    /\ UNCHANGED <<stage, catalogs, helpers, size_cache, iterator, low, high, drawn_label,
                   drawn_floating, result>>

\* no branch of the dispatch matches: generate() falls off its end
GenerateNone ==
    /\ pc = "dispatch"
    /\ selected \notin 0..MaxStage
    /\ Return(NoneResult, size_cache, -1)
    /\ UNCHANGED <<stage, catalogs, helpers, drawn_floating>>

\* yield: the pull receives the value and the generator suspends
Yield ==
    /\ pc = "returned"
    /\ pc' = "idle"
    /\ result' = NoResult
    /\ drawn_label' = -1
    /\ drawn_floating' = <<>>
    /\ UNCHANGED <<stage, catalogs, helpers, size_cache, iterator, low, high, selected, draw>>

----------------------------------------------------------------------------
(* Stage generators 0..5: a single glyph *)

\* (variant of FirstFont: the first font of the catalog when none supports)
FirstFontOrDefault(character) ==
    IF fonts_supporting_glyph(character) = <<>> THEN {font_infos[1]}
    ELSE {fonts_supporting_glyph(character)[1]}

\* stages 0..3: self.fonts_supporting_glyph(character)[0]
FirstFont(character) ==
    IF fonts_supporting_glyph(character) = <<>> THEN {}
    ELSE {fonts_supporting_glyph(character)[1]}

\* (variant of AnyFont: any font of the catalog)
AnyFontOfCatalog(character) == Choices(font_infos)

\* stages 4..8: random.choice(self.fonts_supporting_glyph(character))
AnyFont(character) == Choices(fonts_supporting_glyph(character))

\* font_size = max(8, self.random_font_size())
RandomSizes == {Max(MinFontSize, raw) : raw \in random_font_size}

generate_stage_0 ==
    /\ pc = "dispatch"
    /\ selected = 0
    /\ \E label \in Labels :
        LET character == CharacterAt(label)
        IN IF FirstFont(character) = {}
           THEN Raise(0, "IndexError", <<>>, size_cache, label)
           ELSE \E font_info \in FirstFont(character) :
                LET font == FontGet(font_info, FixedFontSize)
                IN Return(SingleGlyphSample(0, label, font, "white", 0, 0),
                          CacheAfterGet(size_cache, font_info, FixedFontSize), label)
    /\ UNCHANGED <<stage, catalogs, helpers, drawn_floating>>

generate_stage_1 ==
    /\ pc = "dispatch"
    /\ selected = 1
    /\ \E label \in Labels :
        LET character == CharacterAt(label)
        IN IF FirstFont(character) = {}
           THEN Raise(1, "IndexError", <<>>, size_cache, label)
           ELSE \E font_info \in FirstFont(character),
                   inverted \in {Exceeds(u, 1, 2) : u \in RandomDraws} :
                LET font == FontGet(font_info, FixedFontSize)
                IN Return(SingleGlyphSample(1, label, font,
                                            IF inverted THEN "black" ELSE "white", 0, 0),
                          CacheAfterGet(size_cache, font_info, FixedFontSize), label)
    /\ UNCHANGED <<stage, catalogs, helpers, drawn_floating>>

generate_stage_2 ==
    /\ pc = "dispatch"
    /\ selected = 2
    /\ \E label \in Labels :
        LET character == CharacterAt(label)
        IN IF FirstFont(character) = {}
           THEN Raise(2, "IndexError", <<>>, size_cache, label)
           ELSE \E font_info \in FirstFont(character) :
                LET font == FontGet(font_info, FixedFontSize)
                IN Return(SingleGlyphSample(2, label, font, "random_color", 0, 0),
                          CacheAfterGet(size_cache, font_info, FixedFontSize), label)
    /\ UNCHANGED <<stage, catalogs, helpers, drawn_floating>>

generate_stage_3 ==
    /\ pc = "dispatch"
    /\ selected = 3
    /\ \E label \in Labels :
        LET character == CharacterAt(label)
        IN IF FirstFont(character) = {}
           THEN Raise(3, "IndexError", <<>>, size_cache, label)
           ELSE \E font_info \in FirstFont(character),
                   font_size \in {SmallFontSize, FixedFontSize} :
                LET font == FontGet(font_info, font_size)
                IN Return(SingleGlyphSample(3, label, font, "random_color", 0, 0),
                          CacheAfterGet(size_cache, font_info, font_size), label)
    /\ UNCHANGED <<stage, catalogs, helpers, drawn_floating>>

\* generate_stage_4 with random_font_size() explored over sizes
Stage4(sizes) ==
    /\ pc = "dispatch"
    /\ selected = 4
    /\ \E label \in Labels :
        LET character == CharacterAt(label)
        IN IF AnyFont(character) = {}
           THEN Raise(4, "IndexError", <<>>, size_cache, label)
           ELSE \E font_info \in AnyFont(character), font_size \in sizes :
                LET font == FontGet(font_info, font_size)
                IN Return(SingleGlyphSample(4, label, font, "random_color", 0, 0),
                          CacheAfterGet(size_cache, font_info, font_size), label)
    /\ UNCHANGED <<stage, catalogs, helpers, drawn_floating>>

generate_stage_4 == Stage4(RandomSizes)

\* generate_stage_5 with random_font_size() explored over sizes and the
\* random.random() draws of x_offset and y_offset over x_draws and y_draws
Stage5(sizes, x_draws, y_draws) ==
    /\ pc = "dispatch"
    /\ selected = 5
    /\ \E label \in Labels :
        LET character == CharacterAt(label)
        IN IF AnyFont(character) = {}
           THEN Raise(5, "IndexError", <<>>, size_cache, label)
           ELSE \E font_info \in AnyFont(character), font_size \in sizes,
                   ux \in x_draws, uy \in y_draws :
                LET font == FontGet(font_info, font_size)
                    width == GlyphBBox(font, character)[1]
                    height == GlyphBBox(font, character)[2]
                    x_offset == Offset(width, 1, ux)
                    y_offset == Offset(height, 1, uy)
                IN Return(SingleGlyphSample(5, label, font, "random_color",
                                            x_offset, y_offset),
                          CacheAfterGet(size_cache, font_info, font_size), label)
    /\ UNCHANGED <<stage, catalogs, helpers, drawn_floating>>

generate_stage_5 == Stage5(RandomSizes, OffsetDraws, OffsetDraws)

----------------------------------------------------------------------------
(* Stage generators 6..8: the labeled glyph inside a line of text *)

\* before and after: [random.choice(tuple(font_info.supported_glyphs))
\* for _ in range(count)], count = random.randint(0, 10); at most MaxContext
\* context glyphs in the line
Contexts(font_info) ==
    LET glyphs == SeqsUpTo(font_info.supported_glyphs, MaxContext)
    IN {bf \in glyphs \X glyphs :
           /\ Len(bf[1]) \in ContextCounts /\ Len(bf[2]) \in ContextCounts
           /\ Len(bf[1]) + Len(bf[2]) <= MaxContext}

\* the characters of chars whose box has right == 0 or bottom == 0 under font
ZeroExtent(font, chars) ==
    SelectSeq(chars, LAMBDA c : GlyphBBox(font, c)[1] = 0 \/ GlyphBBox(font, c)[2] = 0)

\* the geometry computed from font.getbbox(text): character_width is the
\* rational right / total_count, x the rational x[1] / x[2]
Compose(font, before, character, after, ux, uy) ==
    LET text == before \o <<character>> \o after
        right == TextBBox(font, text)[1]
        bottom == TextBBox(font, text)[2]
        total_count == Len(before) + Len(after) + 1
        before_count == Len(before)
        x_offset == Offset(right, total_count, ux)
        y_offset == Offset(bottom, 1, uy)
    IN [text |-> text, right |-> right, bottom |-> bottom,
        total_count |-> total_count, before_count |-> before_count,
        x_offset |-> x_offset, y_offset |-> y_offset,
        \* x = 64 - character_width / 2 - character_width * before_count, plus x_offset
        x |-> <<2 * total_count * (Center + x_offset) - right - 2 * right * before_count,
                2 * total_count>>,
        y |-> Center + y_offset]

\* (variant of EatBox: the box is twice as wide and high, extent instead of
\* extent / 2 on each side of the centre)
EatBoxFullExtent(c) ==
    LET cx == c.total_count * (Center + c.x_offset)
        cy == Center + c.y_offset
    IN [left |-> Round(cx - c.right, c.total_count),
        right |-> Round(cx + c.right, c.total_count),
        top |-> cy - c.bottom,
        bottom |-> cy + c.bottom]

\* the box handed to eat_sides, after its four round() calls
EatBox(c) ==
    LET cx == 2 * c.total_count * (Center + c.x_offset)
        cy == 2 * (Center + c.y_offset)
    IN [left |-> Round(cx - c.right, 2 * c.total_count),
        right |-> Round(cx + c.right, 2 * c.total_count),
        top |-> Round(cy - c.bottom, 2),
        bottom |-> Round(cy + c.bottom, 2)]

\* eat_sides(image, left, right, top, bottom): the four random.randint ranges;
\* random.randint(a, b) raises ValueError when a > b
EatSidesFails(box) ==
    box.left < 0 \/ box.right > CanvasSize \/ box.top < 0 \/ box.bottom > CanvasSize

eat_sides(box) ==
    [left |-> <<0, box.left>>, right |-> <<box.right, CanvasSize>>,
     top |-> <<0, box.top>>, bottom |-> <<box.bottom, CanvasSize>>]

\* self.random_background_image(width, height): random.choice of an empty
\* list raises IndexError, randint(0, width - 2) of a width below 2 ValueError
random_background_image ==
    IF background_images = <<>> THEN {"IndexError"}
    ELSE {IF background[1] < 2 \/ background[2] < 2 THEN "ValueError" ELSE "generated"
          : background \in Choices(background_images)}

\* self.generate_background(width, height): the pixels of the canvas are not
\* modelled, only whether a canvas is produced ("generated") or which error
generate_background ==
    \* "noise" over an image or over a flat color, "img", "plain"
    random_background_image \cup {"generated"}

BackgroundErrors == {"IndexError", "ValueError"}

\* the sample and region score of stages 6..8 once the text line is composed
LineSample(gen, label, font, c, background, effect, eaten, floating) ==
    LET character == CharacterAt(label)
        line == TextDraw(<<c.x, c.y>>, c.text, font, "lm", effect, c.before_count + 1)
        sample == NewSample(background, <<line>> \o floating, eaten)
        rectangle == generate_region_score(CanvasSize, CanvasSize)
        region_score == generate_only_char(<<<<Center + c.x_offset, 1>>, Center + c.y_offset>>,
                                           character, font)
    IN ReturnSample(gen, sample, label, region_score)

\* font_info['path'] at line 357: FontInfo is an object with the attributes
\* path and supported_glyphs and the method get, not a mapping, so the
\* subscript raises TypeError
FontInfoSubscript(font_info, key) == "TypeError"

\* generate_stage_6 with random_font_size() explored over sizes and the
\* random.random() draws of x_offset and y_offset over x_draws and y_draws
Stage6(sizes, x_draws, y_draws) ==
    /\ pc = "dispatch"
    /\ selected = 6
    /\ \E label \in Labels :
        LET character == CharacterAt(label)
        IN IF AnyFont(character) = {}
           THEN Raise(6, "IndexError", <<>>, size_cache, label)
           ELSE \E font_info \in AnyFont(character), font_size \in sizes :
                \E context \in Contexts(font_info),
                   ux \in x_draws, uy \in y_draws :
                LET font == FontGet(font_info, font_size)
                    cache == CacheAfterGet(size_cache, font_info, font_size)
                    c == Compose(font, context[1], character, context[2], ux, uy)
                IN IF ZeroExtent(font, c.text) # <<>>
                   \* font_info['path'] fails before the diagnostic is printed
                   THEN Raise(6, FontInfoSubscript(font_info, "path"), <<>>, cache, label)
                   ELSE Return(LineSample(6, label, font, c, "random_color",
                                          "none", <<>>, <<>>), cache, label)
    /\ UNCHANGED <<stage, catalogs, helpers, drawn_floating>>

generate_stage_6 == Stage6(RandomSizes, OffsetDraws, OffsetDraws)

\* generate_stage_7 over the same three sets of draws
Stage7(sizes, x_draws, y_draws) ==
    /\ pc = "dispatch"
    /\ selected = 7
    /\ \E label \in Labels :
        LET character == CharacterAt(label)
        IN IF AnyFont(character) = {}
           THEN Raise(7, "IndexError", <<>>, size_cache, label)
           ELSE \E font_info \in AnyFont(character), font_size \in sizes :
                \E context \in Contexts(font_info),
                   ux \in x_draws, uy \in y_draws,
                   background \in generate_background,
                   outlined \in {Exceeds(u, 9, 10) : u \in RandomDraws},
                   eat \in {Exceeds(u, 9, 10) : u \in RandomDraws} :
                LET font == FontGet(font_info, font_size)
                    cache == CacheAfterGet(size_cache, font_info, font_size)
                    c == Compose(font, context[1], character, context[2], ux, uy)
                    effect == IF outlined THEN "outline" ELSE "none"
                    eaten == IF eat THEN <<eat_sides(EatBox(c))>> ELSE <<>>
                IN IF ZeroExtent(font, c.text) # <<>>
                   THEN Raise(7, "exit", <<ZeroExtent(font, c.text)[1], font_info.path>>, cache, label)
                   ELSE IF background \in BackgroundErrors
                   THEN Raise(7, background, <<>>, cache, label)
                   ELSE IF eat /\ EatSidesFails(EatBox(c))
                   THEN Raise(7, "ValueError", <<>>, cache, label)
                   ELSE Return(LineSample(7, label, font, c, background,
                                          effect, eaten, <<>>), cache, label)
    /\ UNCHANGED <<stage, catalogs, helpers, drawn_floating>>

generate_stage_7 == Stage7(RandomSizes, OffsetDraws, OffsetDraws)

\* (variant of FloatingYRanges: the range below the text is taken without
\* the test for room)
FloatingYRangesBelowAlways(y, bottom, f_bottom) ==
    (IF 2 * y - bottom > 0
     THEN <<<<0 - f_bottom, y - (bottom \div 2) - f_bottom>>>> ELSE <<>>)
    \o <<<<y + (bottom \div 2), CanvasSize>>>>

\* the candidate Y-ranges of one floating character: above the text band when
\* y - bottom / 2 - f_bottom > -f_bottom, below it when 128 > y + bottom / 2;
\* each range is the <<a, b>> of a random.randint(a, b)
FloatingYRanges(y, bottom, f_bottom) ==
    (IF 2 * y - bottom > 0
     THEN <<<<0 - f_bottom, y - (bottom \div 2) - f_bottom>>>> ELSE <<>>)
    \o
    (IF 2 * CanvasSize > 2 * y + bottom
     THEN <<<<y + (bottom \div 2), CanvasSize>>>> ELSE <<>>)

\* [random.choice(tuple(font_info.supported_glyphs)) for _ in range(floating_count)],
\* floating_count = int(abs(np.random.normal(0, 10)))
MaxFloating == 1
FloatingCharacters(font_info) == SeqsUpTo(font_info.supported_glyphs, MaxFloating)

\* the font the plain branch of the floating loop passes to drawing.text
PlainFloatingFont(font, floating_font) == font

\* the loop over floating_characters: every outcome it can have, as the draws
\* made on the sample and the size cache it leaves behind
RECURSIVE FloatingLoop(_, _, _, _, _, _)
FloatingLoop(chars, font, y, bottom, cache, sizes) ==
    IF chars = <<>> THEN {[draws |-> <<>>, cache |-> cache]}
    ELSE UNION {
        LET floating_character == Head(chars)
            floating_font == FontGet(font_info, font_size)
            f_right == GlyphBBox(floating_font, floating_character)[1]
            f_bottom == GlyphBBox(floating_font, floating_character)[2]
            floating_y == FloatingYRanges(y, bottom, f_bottom)
            rest == FloatingLoop(Tail(chars), font, y, bottom,
                                 CacheAfterGet(cache, font_info, font_size), sizes)
            drawn == [text |-> <<floating_character>>, anchor |-> "lt", label_at |-> 0,
                      font |-> IF outlined THEN floating_font
                               ELSE PlainFloatingFont(font, floating_font),
                      measured |-> floating_font,
                      effect |-> IF outlined THEN "outline" ELSE "none",
                      x_range |-> <<0 - f_right, CanvasSize>>,
                      y_ranges |-> floating_y]
        IN IF floating_y = <<>> THEN rest
           ELSE {[draws |-> <<drawn>> \o r.draws, cache |-> r.cache] : r \in rest}
        : font_info \in AnyFont(Head(chars)), font_size \in sizes,
          outlined \in {Exceeds(u, 9, 10) : u \in RandomDraws}}

\* generate_stage_8 over the same three sets of draws
Stage8(sizes, x_draws, y_draws) ==
    /\ pc = "dispatch"
    /\ selected = 8
    /\ \E character_index \in Labels :
        LET character == CharacterAt(character_index)
        IN IF AnyFont(character) = {}
           THEN /\ Raise(8, "IndexError", <<>>, size_cache, character_index)
                /\ drawn_floating' = <<>>
           ELSE \E font_info \in AnyFont(character), font_size \in sizes :
                \E context \in Contexts(font_info),
                   floating_characters \in FloatingCharacters(font_info),
                   ux \in x_draws, uy \in y_draws,
                   background \in generate_background,
                   effect \in {"outline", "underline", "none"},
                   eat \in {Exceeds(u, 9, 10) : u \in RandomDraws} :
                LET font == FontGet(font_info, font_size)
                    cache == CacheAfterGet(size_cache, font_info, font_size)
                    c == Compose(font, context[1], character, context[2], ux, uy)
                    zero == ZeroExtent(font, c.text \o floating_characters)
                    eaten == IF eat THEN <<eat_sides(EatBox(c))>> ELSE <<>>
                IN /\ drawn_floating' = floating_characters
                   /\ IF zero # <<>>
                      THEN Raise(8, "exit", <<zero[1], font_info.path>>, cache, character_index)
                      ELSE IF background \in BackgroundErrors
                      THEN Raise(8, background, <<>>, cache, character_index)
                      ELSE \E floating \in FloatingLoop(floating_characters, font,
                                                        c.y, c.bottom, cache, sizes) :
                           IF eat /\ EatSidesFails(EatBox(c))
                           THEN Raise(8, "ValueError", <<>>, floating.cache, character_index)
                           ELSE Return(LineSample(8, character_index, font, c, background,
                                                  effect, eaten, floating.draws),
                                       floating.cache, character_index)
    /\ UNCHANGED <<stage, catalogs, helpers>>

generate_stage_8 == Stage8(RandomSizes, OffsetDraws, OffsetDraws)

----------------------------------------------------------------------------
(* The specification *)

Next ==
    \/ SetStage
    \/ NewIterator
    \/ GenerateLow
    \/ GenerateChoose
    \/ GenerateClamp
    \/ GenerateNone
    \/ Yield
    \/ generate_stage_0
    \/ generate_stage_1
    \/ generate_stage_2
    \/ generate_stage_3
    \/ generate_stage_4
    \/ generate_stage_5
    \/ generate_stage_6
    \/ generate_stage_7
    \/ generate_stage_8

Spec == Init /\ [][Next]_vars

(* A dataset over the two-font catalog, constructed without a transform, with  *)
(* a driver that sets the stage field once, before the first pull, to an       *)
(* integer stage                                                               *)

InitFixed ==
    /\ stage \in {k * StageDen : k \in 0..MaxStage}
    /\ characters = MainCharacters
    /\ font_infos = MainFonts
    /\ size_cache = EmptyCache
    /\ background_images = MainBackgrounds
    /\ transform = "None"
    /\ iterator = "suspended"
    /\ pc = "idle"
    /\ low = "none" /\ high = "none" /\ selected = "none" /\ draw = "none"
    /\ drawn_label = -1
    /\ drawn_floating = <<>>
    /\ result = NoResult
    /\ NoHelpers

NextFixed ==
    \/ NewIterator
    \/ GenerateLow
    \/ GenerateChoose
    \/ GenerateClamp
    \/ Yield
    \/ generate_stage_0
    \/ generate_stage_1
    \/ generate_stage_2
    \/ generate_stage_3
    \/ generate_stage_4
    \/ generate_stage_5
    \/ generate_stage_6
    \/ generate_stage_7
    \/ generate_stage_8

SpecFixed == InitFixed /\ [][NextFixed]_vars

(* A dataset whose one font lists a glyph it renders with an empty box ("z"),  *)
(* pulled at the integer stages 6, 7 and 8, with random_font_size() explored   *)
(* over a small and a very large size and the y_offset draw over its two ends  *)
(* and its middle                                                              *)

LineCharacters == <<"a", "z">>
LineFonts == <<[path |-> "F1", supported_glyphs |-> {"a", "z"}]>>

TallFontSizes == {5, 160}
TallSizes == {Max(MinFontSize, raw) : raw \in TallFontSizes}
MiddleDraws == {0, UnitDen \div 2, UnitDen - 1}

InitLine ==
    /\ stage \in {k * StageDen : k \in 6..MaxStage}
    /\ characters = LineCharacters
    /\ font_infos = LineFonts
    /\ size_cache = EmptyCache
    /\ background_images = MainBackgrounds
    /\ transform = "None"
    /\ iterator = "suspended"
    /\ pc = "idle"
    /\ low = "none" /\ high = "none" /\ selected = "none" /\ draw = "none"
    /\ drawn_label = -1
    /\ drawn_floating = <<>>
    /\ result = NoResult
    /\ NoHelpers

generate_stage_6_tall == Stage6(TallSizes, {0}, MiddleDraws)
generate_stage_7_tall == Stage7(TallSizes, {0}, MiddleDraws)
generate_stage_8_tall == Stage8(TallSizes, {0}, MiddleDraws)

NextLine ==
    \/ NewIterator
    \/ GenerateLow
    \/ GenerateChoose
    \/ GenerateClamp
    \/ Yield
    \/ generate_stage_6_tall
    \/ generate_stage_7_tall
    \/ generate_stage_8_tall

SpecLine == InitLine /\ [][NextLine]_vars

(* Construction as a step: RecognizerTrainingDataset(data_folder,              *)
(* character_set, transform) over the possible contents of the backgrounds      *)
(* folder, followed by the driver and the pulls of Spec                         *)

LoadCharacters == <<"a">>

\* os.listdir(background_images_folder) filtered to files, each opened with
\* Image.open: no file, one image one pixel wide, one usable image
BackgroundFolders == {<<>>, <<<<1, 3>>>>, MainBackgrounds}

InitNew ==
    /\ stage = 0
    /\ characters = <<>>
    /\ font_infos = <<>>
    /\ size_cache = EmptyCache
    /\ background_images = <<>>
    /\ transform = "None"
    /\ iterator = "finished"
    /\ pc = "new"
    /\ low = "none" /\ high = "none" /\ selected = "none" /\ draw = "none"
    /\ drawn_label = -1
    /\ drawn_floating = <<>>
    /\ result = NoResult
    /\ NoHelpers

\* __init__: the catalogs are loaded and self.stage = 0; no statement of it
\* looks at the number or the size of the background images
DatasetInit ==
    /\ pc = "new"
    /\ font_infos' = SmallFonts
    /\ transform' \in {"None", "transform"}
    /\ characters' = LoadCharacters
    /\ background_images' \in BackgroundFolders
    /\ stage' = 0
    /\ pc' = "idle"
    /\ UNCHANGED <<helpers, size_cache, iterator, locals, result>>

NextLoad ==
    \/ DatasetInit
    \/ Next

SpecLoad == InitNew /\ [][NextLoad]_vars

----------------------------------------------------------------------------
(* Stages 7 and 8 run from a seeded random source.  A seed is the pair of     *)
(* streams it makes the two generators produce: py, the values of the random  *)
(* module (numerators over UnitDen), and np, the standard normal values of    *)
(* numpy.random (numerators over NormDen).  Every random call takes the next  *)
(* value of its stream.                                                       *)

NormDen == 10

\* random.randrange(0, n) and the index random.choice takes, from the value u
RandBelow(u, n) == (u * n) \div UnitDen

\* random.choice(seq)
SeededChoice(u, seq) == seq[1 + RandBelow(u, Len(seq))]

\* random.randint(a, b)
SeededRandInt(u, a, b) == a + RandBelow(u, b - a + 1)

\* int(np.random.normal(mu, sigma)) for the standard normal value z / NormDen
SeededNormal(z, mu, sigma) == Trunc(mu * NormDen + sigma * z, NormDen)

\* random.choices(population, weights=weights)[0]: the first index whose
\* cumulative weight exceeds random.random() * total
RECURSIVE WeightedIndex(_, _, _, _)
WeightedIndex(u, weights, i, cum) ==
    IF i >= Len(weights) \/ u * SumSeq(weights) < (cum + weights[i]) * UnitDen THEN i
    ELSE WeightedIndex(u, weights, i + 1, cum + weights[i])

SeededChoices(u, population, weights) == population[WeightedIndex(u, weights, 1, 0)]

\* self.random_font_size(): the four normal values are taken first, then
\* random.choices picks one of them
SeededFontSize(u, np) ==
    SeededChoices(u, <<SeededNormal(np[1], 15, 3), SeededNormal(np[2], 20, 3),
                       SeededNormal(np[3], 35, 3), SeededNormal(np[4], 50, 3)>>,
                  <<10, 3, 1, 1>>)

\* tuple(font_info.supported_glyphs)
GlyphTuple(font_info) ==
    SelectSeq(<<"a", "b", "c", "z">>, LAMBDA g : g \in font_info.supported_glyphs)

\* the number of values self.generate_background(128, 128) takes from py,
\* starting at position at: random.choices, then random.random() and either
\* random_background_image (random.choice and four randint) or random_color
\* (three randint)
BackgroundDraws(py, at) ==
    LET choice == SeededChoices(py[at], <<"noise", "img", "plain">>, <<1, 1, 1>>)
    IN IF choice = "noise" THEN (IF Exceeds(py[at + 1], 1, 2) THEN 7 ELSE 5)
       ELSE IF choice = "img" THEN 6
       ELSE 4

\* what a seeded run of a generator is compared on
Structure(label, font, c, floating_count, effect, taken) ==
    [label |-> label, font |-> font, text |-> c.text, xy |-> <<c.x, c.y>>,
     region_xy |-> <<<<Center + c.x_offset, 1>>, Center + c.y_offset>>,
     floating_count |-> floating_count, effect |-> effect, taken |-> taken]

\* generate_stage_7 on the streams py and np, call by call
SeededRun7(py, np) ==
    LET label == RandBelow(py[1], Len(characters))
        character == CharacterAt(label)
        font_info == SeededChoice(py[2], fonts_supporting_glyph(character))
        font_size == Max(MinFontSize, SeededFontSize(py[3], np))
        font == FontGet(font_info, font_size)
        before_count == SeededRandInt(py[4], 0, MaxContextCount)
        after_count == SeededRandInt(py[5], 0, MaxContextCount)
        before == [i \in 1..before_count |-> SeededChoice(py[5 + i], GlyphTuple(font_info))]
        after == [i \in 1..after_count |->
                     SeededChoice(py[5 + before_count + i], GlyphTuple(font_info))]
        at == 5 + before_count + after_count
        c == Compose(font, before, character, after, py[at + 1], py[at + 2])
        toggle == at + 2 + BackgroundDraws(py, at + 3) + 1
        \* if random.random() > 0.9: draw_outlined_text(...)
        effect == IF Exceeds(py[toggle], 9, 10) THEN "outline" ELSE "none"
    IN Structure(label, font, c, 0, effect, toggle)

\* (variant of OffsetPositions: y_offset is drawn before x_offset)
OffsetPositionsSwapped(at) == <<at + 2, at + 1>>

\* the positions in py of the random.random() calls of x_offset and y_offset
\* when at values have been taken before them
OffsetPositions(at) == <<at + 1, at + 2>>

\* generate_stage_8 on the streams py and np, call by call
SeededRun8(py, np) ==
    LET character_index == RandBelow(py[1], Len(characters))
        character == CharacterAt(character_index)
        font_info == SeededChoice(py[2], fonts_supporting_glyph(character))
        font_size == Max(MinFontSize, SeededFontSize(py[3], np))
        font == FontGet(font_info, font_size)
        before_count == SeededRandInt(py[4], 0, MaxContextCount)
        after_count == SeededRandInt(py[5], 0, MaxContextCount)
        before == [i \in 1..before_count |-> SeededChoice(py[5 + i], GlyphTuple(font_info))]
        after == [i \in 1..after_count |->
                     SeededChoice(py[5 + before_count + i], GlyphTuple(font_info))]
        \* floating_count = int(abs(np.random.normal(0, 10))): the fifth value of np
        normal == SeededNormal(np[5], 0, 10)
        floating_count == IF normal < 0 THEN 0 - normal ELSE normal
        \* one random.choice per floating character
        at == 5 + before_count + after_count + floating_count
        c == Compose(font, before, character, after,
                     py[OffsetPositions(at)[1]], py[OffsetPositions(at)[2]])
        toggle == at + 2 + BackgroundDraws(py, at + 3) + 1
        effect == SeededChoices(py[toggle], <<"outline", "underline", "none">>, <<1, 1, 10>>)
    IN Structure(character_index, font, c, floating_count, effect, toggle)

\* the seeds the two generators are run from
SeedDraws == {0, UnitDen - 1}
\* one value of py for each count random.randint(0, 10) can give up to MaxContext
CountDraws == {u \in 0..(UnitDen - 1) :
                 /\ SeededRandInt(u, 0, MaxContextCount) <= MaxContext
                 /\ \A v \in 0..(u - 1) : SeededRandInt(v, 0, MaxContextCount)
                                           # SeededRandInt(u, 0, MaxContextCount)}
\* the values taken by the context, the floating characters and the offsets
MiddleLen == MaxContext + MaxFloating + 2
\* the values taken by generate_background and by the outline or effect choice
TailLen == 8
CountPairs ==
    {ba \in CountDraws \X CountDraws :
        SeededRandInt(ba[1], 0, MaxContextCount)
            + SeededRandInt(ba[2], 0, MaxContextCount) <= MaxContext}
PySeeds ==
    {<<l, f, s, ba[1], ba[2]>> \o middle \o [i \in 1..TailLen |-> UnitDen \div 2] :
        l \in SeedDraws, f \in SeedDraws, s \in SeedDraws, ba \in CountPairs,
        middle \in [1..MiddleLen -> SeedDraws]}
NpSeeds == {<<z, z, z, z, n>> : z \in {0, NormDen}, n \in {0, 1}}

SeedCharacters == <<"a", "b">>
NoRun == [label |-> -1]

InitSeed ==
    /\ stage = 0
    /\ characters = SeedCharacters
    /\ font_infos = MainFonts
    /\ size_cache = EmptyCache
    /\ background_images = MainBackgrounds
    /\ transform = "None"
    /\ iterator = "suspended"
    /\ pc = "idle"
    /\ low = "none" /\ high = "none" /\ selected = "none" /\ draw = "none"
    /\ drawn_label = -1
    /\ drawn_floating = <<>>
    /\ result = NoResult
    /\ drawing = <<>>
    /\ files = {}
    /\ font_loads = <<>>
    /\ \E py \in PySeeds, np \in NpSeeds :
           frame = [call |-> "seeded", py |-> py, np |-> np,
                    stage_7 |-> NoRun, stage_8 |-> NoRun]

\* random.seed / np.random.seed with the seed, then dataset.generate_stage_7()
SeededStage7 ==
    /\ frame.call = "seeded"
    /\ frame.stage_7 = NoRun
    /\ frame' = [frame EXCEPT !.stage_7 = SeededRun7(frame.py, frame.np)]
    /\ size_cache' = [size_cache EXCEPT ![frame'.stage_7.font.path] =
                          @ \cup {frame'.stage_7.font.size}]
    /\ UNCHANGED <<stage, catalogs, iterator, pc, locals, result, drawing, files, font_loads>>

\* the same seed again, then dataset.generate_stage_8()
SeededStage8 ==
    /\ frame.call = "seeded"
    /\ frame.stage_8 = NoRun
    /\ frame' = [frame EXCEPT !.stage_8 = SeededRun8(frame.py, frame.np)]
    /\ size_cache' = [size_cache EXCEPT ![frame'.stage_8.font.path] =
                          @ \cup {frame'.stage_8.font.size}]
    /\ UNCHANGED <<stage, catalogs, iterator, pc, locals, result, drawing, files, font_loads>>

NextSeed ==
    \/ SeededStage7
    \/ SeededStage8

SpecSeed == InitSeed /\ [][NextSeed]_vars

----------------------------------------------------------------------------
(* FontInfo.get requested on its own: every request names a font of the       *)
(* catalog and a pixel size                                                    *)

RequestSizes == {MinFontSize, SmallFontSize, FixedFontSize}

\* the position in loads of the last parse of (path, size), 0 when there is none
LastLoad(loads, path, size) ==
    LET at == {i \in 1..Len(loads) : loads[i] = <<path, size>>}
    IN IF at = {} THEN 0 ELSE CHOOSE i \in at : \A k \in at : k <= i

\* font_info.get(font_size): a size without a cached handle is parsed from the
\* font file and cached; the handle returned is the one the cache holds
FontInfoGet ==
    /\ pc = "idle"
    /\ frame.call \in {"none", "get"}
    /\ \E font_info \in Choices(font_infos), font_size \in RequestSizes :
        LET loads == IF font_size \in size_cache[font_info.path] THEN font_loads
                     ELSE Append(font_loads, <<font_info.path, font_size>>)
        IN /\ font_loads' = loads
           /\ size_cache' = CacheAfterGet(size_cache, font_info, font_size)
           /\ frame' = [call |-> "get", path |-> font_info.path, size |-> font_size,
                        font |-> FontGet(font_info, font_size),
                        load |-> LastLoad(loads, font_info.path, font_size)]
    /\ UNCHANGED <<stage, catalogs, iterator, pc, locals, result, drawing, files>>

NextFonts == FontInfoGet

SpecFonts == InitFixed /\ [][NextFonts]_vars

----------------------------------------------------------------------------
(* The offline preview: the __main__ block of training_dataset.py             *)

PreviewCount == 50

\* (variant of PreviewFiles: the running index is left out of the names)
PreviewFilesWithoutIndex(k, i, character) ==
    {[stage |-> k, i |-> 0, character |-> character, kind |-> "feature"],
     [stage |-> k, i |-> 0, character |-> character, kind |-> "region_score"]}

\* generated/training/{stage}/{i}_{character}_feature.png and
\* generated/training/{stage}/{i}_{character}_region_score.png
PreviewFiles(k, i, character) ==
    {[stage |-> k, i |-> i, character |-> character, kind |-> "feature"],
     [stage |-> k, i |-> i, character |-> character, kind |-> "region_score"]}

\* a file left in generated/training/0 by an earlier run
StaleFiles == PreviewFiles(0, 0, "a")

InitPreview ==
    /\ stage = 0
    /\ characters = LoadCharacters
    /\ font_infos = SmallFonts
    /\ size_cache = EmptyCache
    /\ background_images = MainBackgrounds
    /\ transform = "None"
    /\ iterator = "finished"
    /\ pc = "idle"
    /\ low = "none" /\ high = "none" /\ selected = "none" /\ draw = "none"
    /\ drawn_label = -1
    /\ drawn_floating = <<>>
    /\ result = NoResult
    /\ drawing = <<>>
    /\ files \in {{}, StaleFiles}
    /\ font_loads = <<>>
    /\ frame = [call |-> "main", cleaned |-> FALSE, done |-> 0]

\* for file in glob.glob("generated/training/*/*"): os.remove(file)
PreviewClean ==
    /\ frame.call = "main"
    /\ ~frame.cleaned
    /\ files' = {}
    /\ frame' = [frame EXCEPT !.cleaned = TRUE]
    /\ UNCHANGED <<stage, catalogs, size_cache, iterator, pc, locals, result, drawing,
                   font_loads>>

\* generate(dataset, k, count=50) is entered, k the number of calls made so
\* far: dataset.stage = stage; mkdir; iterator = iter(dataset)
PreviewEnter ==
    /\ frame.call = "main"
    /\ frame.cleaned
    /\ frame.done <= MaxStage
    /\ pc = "idle"
    /\ stage' = frame.done * StageDen
    /\ iterator' = "suspended"
    /\ frame' = [call |-> "preview", stage |-> frame.done, i |-> 0]
    /\ UNCHANGED <<catalogs, size_cache, pc, locals, result, drawing, files, font_loads>>

\* for i in range(count): ... next(iterator)
PreviewNext ==
    /\ frame.call = "preview"
    /\ frame.i < PreviewCount
    /\ GenerateLow

\* sample, label, region_score = next(iterator) returns; character =
\* dataset.characters[label]; the two images are saved
PreviewSave ==
    /\ frame.call = "preview"
    /\ pc = "returned"
    /\ result.kind = "sample"
    /\ files' = files \cup PreviewFiles(frame.stage, frame.i, CharacterAt(result.label))
    /\ frame' = [frame EXCEPT !.i = @ + 1]
    /\ pc' = "idle"
    /\ result' = NoResult
    /\ drawn_label' = -1
    /\ drawn_floating' = <<>>
    /\ UNCHANGED <<stage, catalogs, size_cache, iterator, low, high, selected, draw,
                   drawing, font_loads>>

\* the loop of generate(dataset, stage, count) ends
PreviewReturn ==
    /\ frame.call = "preview"
    /\ frame.i = PreviewCount
    /\ pc = "idle"
    /\ frame' = [call |-> "main", cleaned |-> TRUE, done |-> frame.stage + 1]
    /\ UNCHANGED <<stage, catalogs, size_cache, iterator, pc, locals, result, drawing,
                   files, font_loads>>

\* stages 6..8 as the preview pulls them, explored with both offset draws at 0.0
preview_stage_6 == Stage6(RandomSizes, {0}, {0})
preview_stage_7 == Stage7(RandomSizes, {0}, {0})
preview_stage_8 == Stage8(RandomSizes, {0}, {0})

NextPreview ==
    \/ PreviewClean
    \/ PreviewEnter
    \/ PreviewNext
    \/ GenerateChoose
    \/ GenerateClamp
    \/ PreviewSave
    \/ PreviewReturn
    \/ generate_stage_0
    \/ generate_stage_1
    \/ generate_stage_2
    \/ generate_stage_3
    \/ generate_stage_4
    \/ generate_stage_5
    \/ preview_stage_6
    \/ preview_stage_7
    \/ preview_stage_8

SpecPreview == InitPreview /\ [][NextPreview]_vars

----------------------------------------------------------------------------
(* eat_sides run on its own on a 128 x 128 canvas, over boxes whose edges are   *)
(* whole or half pixels (the callers pass 64 + offset -+ extent / 2)            *)

\* the edges of a supplied box are counted in units of 1 / BoxDen pixel
BoxDen == 2

\* edges of the supplied boxes: 0, 61.5, 62.5, 64, 66.5 and 128
EatEdges == {0, 61 * BoxDen + 1, 62 * BoxDen + 1, 64 * BoxDen, 66 * BoxDen + 1,
             CanvasSize * BoxDen}

\* the values of random.randint(a, b) that are explored: both ends
RandIntEnds(range) == {range[1], range[2]}

\* the boxes 0 <= left <= right <= width, 0 <= top <= bottom <= height
InitEat ==
    /\ stage = 0
    /\ characters = MainCharacters
    /\ font_infos = MainFonts
    /\ size_cache = EmptyCache
    /\ background_images = MainBackgrounds
    /\ transform = "None"
    /\ iterator = "suspended"
    /\ pc = "idle"
    /\ low = "none" /\ high = "none" /\ selected = "none" /\ draw = "none"
    /\ drawn_label = -1
    /\ drawn_floating = <<>>
    /\ result = NoResult
    /\ drawing = <<>>
    /\ files = {}
    /\ font_loads = <<>>
    /\ \E left \in EatEdges, right \in EatEdges, top \in EatEdges, bottom \in EatEdges :
           /\ left <= right
           /\ top <= bottom
           /\ frame = [call |-> "eat_sides", left |-> left, right |-> right,
                       top |-> top, bottom |-> bottom]

\* eat_sides(image, left, right, top, bottom): the four round() calls, then the
\* four drawing.rectangle calls in source order
EatSides ==
    /\ frame.call = "eat_sides"
    /\ drawing = <<>>
    /\ LET box == [left |-> Round(frame.left, BoxDen),
                   right |-> Round(frame.right, BoxDen),
                   top |-> Round(frame.top, BoxDen),
                   bottom |-> Round(frame.bottom, BoxDen)]
           ranges == eat_sides(box)
       IN /\ ~EatSidesFails(box)
          /\ \E from_left \in RandIntEnds(ranges.left),
                 from_right \in RandIntEnds(ranges.right),
                 from_top \in RandIntEnds(ranges.top),
                 from_bottom \in RandIntEnds(ranges.bottom) :
                drawing' = <<[call |-> "rectangle", xy0 |-> <<0, 0>>,
                              xy1 |-> <<from_left, CanvasSize>>],
                             [call |-> "rectangle", xy0 |-> <<CanvasSize, 0>>,
                              xy1 |-> <<from_right, CanvasSize>>],
                             [call |-> "rectangle", xy0 |-> <<0, 0>>,
                              xy1 |-> <<CanvasSize, from_top>>],
                             [call |-> "rectangle", xy0 |-> <<0, CanvasSize>>,
                              xy1 |-> <<CanvasSize, from_bottom>>]>>
    /\ UNCHANGED <<stage, catalogs, size_cache, iterator, pc, locals, result, frame,
                   files, font_loads>>

NextEat == EatSides

SpecEat == InitEat /\ [][NextEat]_vars

----------------------------------------------------------------------------
(* draw_outlined_text run on its own, with and without the outline_thickness    *)
(* argument                                                                     *)

\* the largest outline_thickness passed as an argument
MaxThickness == 2

\* the positions xy the text is drawn at
OutlineCoordinates == {0 - 3, 0, Center, CanvasSize}

\* the standard normal values z / NormDen behind np.random.normal(1) = 1 + z
OutlineNormals == {0 - 3 * NormDen, 0 - NormDen, 0 - (NormDen \div 2), 0,
                   NormDen \div 2, NormDen}

\* outline_thickness = 1 + round(abs(np.random.normal(1)))
DefaultThickness(z) ==
    LET value == NormDen + z
    IN 1 + Round(IF value < 0 THEN 0 - value ELSE value, NormDen)

\* (variant of OutlineDraws: both loops run over range(-t, t))
OutlineDrawsShort(xy, t) ==
    LET n == 2 * t
    IN [k \in 1..(n * n) |->
           [call |-> "text", fill |-> "outline_fill",
            xy |-> <<xy[1] + ((k - 1) \div n) - t, xy[2] + ((k - 1) % n) - t>>]]

\* for dx in range(-t, 1 + t): for dy in range(-t, 1 + t):
\*     drawing.text((x + dx, y + dy), ..., fill=outline_fill)
\* the draws in the order the two loops make them
OutlineDraws(xy, t) ==
    LET n == 2 * t + 1
    IN [k \in 1..(n * n) |->
           [call |-> "text", fill |-> "outline_fill",
            xy |-> <<xy[1] + ((k - 1) \div n) - t, xy[2] + ((k - 1) % n) - t>>]]

\* the calls draw_outlined_text(drawing, xy, ..., fill=fill) with
\* outline_thickness left out (<<>>) or given (<<t>>)
InitOutline ==
    /\ stage = 0
    /\ characters = MainCharacters
    /\ font_infos = MainFonts
    /\ size_cache = EmptyCache
    /\ background_images = MainBackgrounds
    /\ transform = "None"
    /\ iterator = "suspended"
    /\ pc = "idle"
    /\ low = "none" /\ high = "none" /\ selected = "none" /\ draw = "none"
    /\ drawn_label = -1
    /\ drawn_floating = <<>>
    /\ result = NoResult
    /\ drawing = <<>>
    /\ files = {}
    /\ font_loads = <<>>
    /\ \E x \in OutlineCoordinates, y \in OutlineCoordinates,
          outline_thickness \in {<<>>} \cup {<<t>> : t \in 0..MaxThickness} :
           frame = [call |-> "draw_outlined_text", xy |-> <<x, y>>,
                    default |-> outline_thickness = <<>>,
                    outline_thickness |-> outline_thickness, returned |-> FALSE]

\* draw_outlined_text(drawing, xy, ..., outline_thickness, fill): the default
\* thickness when none is given, the two loops, the final drawing.text
DrawOutlinedText ==
    /\ frame.call = "draw_outlined_text"
    /\ ~frame.returned
    /\ \E outline_thickness \in
              IF frame.outline_thickness = <<>>
              THEN {DefaultThickness(z) : z \in OutlineNormals}
              ELSE {frame.outline_thickness[1]} :
        /\ frame' = [frame EXCEPT !.outline_thickness = <<outline_thickness>>,
                                  !.returned = TRUE]
        /\ drawing' = drawing \o OutlineDraws(frame.xy, outline_thickness)
                       \o <<[call |-> "text", fill |-> "fill", xy |-> frame.xy]>>
    /\ UNCHANGED <<stage, catalogs, size_cache, iterator, pc, locals, result, files,
                   font_loads>>

NextOutline == DrawOutlinedText

SpecOutline == InitOutline /\ [][NextOutline]_vars

----------------------------------------------------------------------------
(* random_background_image run on its own over stored images of small sizes    *)

\* the largest width and height of a stored background image
MaxSide == 4

\* the values random.randint(a, b) can return
RandInt(a, b) == a..b

\* (variant of CropEnd: the far edge may coincide with the near edge)
CropEndFromStart(start, extent) == RandInt(start, extent)

\* bg_right = randint(bg_left + 1, background.width) and
\* bg_bottom = randint(bg_top + 1, background.height)
CropEnd(start, extent) == RandInt(start + 1, extent)

\* a backgrounds folder holding one image, of any size up to MaxSide
InitCrop ==
    /\ stage = 0
    /\ characters = MainCharacters
    /\ font_infos = MainFonts
    /\ size_cache = EmptyCache
    /\ \E width \in 1..MaxSide, height \in 1..MaxSide :
           background_images = <<<<width, height>>>>
    /\ transform = "None"
    /\ iterator = "suspended"
    /\ pc = "idle"
    /\ low = "none" /\ high = "none" /\ selected = "none" /\ draw = "none"
    /\ drawn_label = -1
    /\ drawn_floating = <<>>
    /\ result = NoResult
    /\ drawing = <<>>
    /\ files = {}
    /\ font_loads = <<>>
    /\ frame = [call |-> "random_background_image", returned |-> FALSE]

\* self.random_background_image(width, height): the stored image is chosen, the
\* four edges of the crop box are drawn in source order and the box is handed
\* to background.resize; a randint over an empty range raises ValueError
RandomBackgroundImage ==
    /\ frame.call = "random_background_image"
    /\ ~frame.returned
    /\ \E background \in Choices(background_images) :
        IF background[1] < 2 \/ background[2] < 2
        THEN frame' = [call |-> "random_background_image", returned |-> TRUE,
                       background |-> background, raised |-> "ValueError"]
        ELSE \E bg_left \in RandInt(0, background[1] - 2),
                bg_top \in RandInt(0, background[2] - 2) :
             \E bg_right \in CropEnd(bg_left, background[1]),
                bg_bottom \in CropEnd(bg_top, background[2]) :
                frame' = [call |-> "random_background_image", returned |-> TRUE,
                          background |-> background, raised |-> "none",
                          box |-> <<bg_left, bg_top, bg_right, bg_bottom>>]
    /\ UNCHANGED <<stage, catalogs, size_cache, iterator, pc, locals, result, drawing,
                   files, font_loads>>

NextCrop == RandomBackgroundImage

SpecCrop == InitCrop /\ [][NextCrop]_vars

----------------------------------------------------------------------------
(* One pull at each whole stage, with random_font_size() computed from its      *)
(* normal values and its weighted choice                                        *)

\* the standard normal values z / NormDen behind the four np.random.normal
\* calls of random_font_size: six deviations below the mean, and the mean
SizeNormals == {0 - 6 * NormDen, 0}

\* every value of self.random_font_size() over those normal values and over
\* the random.random() behind random.choices
RawSizesOfNormals ==
    {SeededFontSize(u, np) : u \in 0..(UnitDen - 1), np \in [1..4 -> SizeNormals]}

\* (variant of FlooredSizes: the raw size is used as it is)
RawSizes(raws) == raws

\* font_size = max(8, font_size)
FlooredSizes(raws) == {Max(MinFontSize, raw) : raw \in raws}

InitSizes ==
    /\ stage \in {k * StageDen : k \in 0..MaxStage}
    /\ characters = LoadCharacters
    /\ font_infos = SmallFonts
    /\ size_cache = EmptyCache
    /\ background_images = MainBackgrounds
    /\ transform = "None"
    /\ iterator = "suspended"
    /\ pc = "idle"
    /\ low = "none" /\ high = "none" /\ selected = "none" /\ draw = "none"
    /\ drawn_label = -1
    /\ drawn_floating = <<>>
    /\ result = NoResult
    /\ NoHelpers

generate_stage_4_sized == Stage4(FlooredSizes(RawSizesOfNormals))
generate_stage_5_sized == Stage5(FlooredSizes(RawSizesOfNormals), {0}, {0})
generate_stage_6_sized == Stage6(FlooredSizes(RawSizesOfNormals), {0}, {0})
generate_stage_7_sized == Stage7(FlooredSizes(RawSizesOfNormals), {0}, {0})
generate_stage_8_sized == Stage8(FlooredSizes(RawSizesOfNormals), {0}, {0})

NextSizes ==
    \/ GenerateLow
    \/ GenerateChoose
    \/ GenerateClamp
    \/ generate_stage_0
    \/ generate_stage_1
    \/ generate_stage_2
    \/ generate_stage_3
    \/ generate_stage_4_sized
    \/ generate_stage_5_sized
    \/ generate_stage_6_sized
    \/ generate_stage_7_sized
    \/ generate_stage_8_sized

SpecSizes == InitSizes /\ [][NextSizes]_vars

----------------------------------------------------------------------------
(* generate_stage_5 run on its own over every value of its two random.random()  *)
(* draws and over fonts of even and odd glyph extents                           *)

\* the pixel sizes random_font_size() is explored over in this run
OffsetSizes == {MinFontSize, 17, 50}

\* every value of random.random() on the grid of UnitDen steps
AllDraws == 0..(UnitDen - 1)

generate_stage_5_any == Stage5(OffsetSizes, AllDraws, AllDraws)

\* generate() has selected stage 5 and is about to call generate_stage_5()
InitOffset ==
    /\ stage = 5 * StageDen
    /\ characters = MainCharacters
    /\ font_infos = MainFonts
    /\ size_cache = EmptyCache
    /\ background_images = MainBackgrounds
    /\ transform = "None"
    /\ iterator = "suspended"
    /\ pc = "dispatch"
    /\ low = 5 /\ high = 6 /\ selected = 5 /\ draw = "none"
    /\ drawn_label = -1
    /\ drawn_floating = <<>>
    /\ result = NoResult
    /\ NoHelpers

NextOffset == generate_stage_5_any

SpecOffset == InitOffset /\ [][NextOffset]_vars

----------------------------------------------------------------------------
(* generate_background run on its own, mode by mode                              *)

\* the modes in the order they are passed to random.choices
BackgroundModes == <<"noise", "img", "plain">>

\* random.choices(["noise", "img", "plain"]) is called without weights: every
\* mode has the same weight
BackgroundWeights == <<1, 1, 1>>

\* the standard normal values z / NormDen behind np.random.normal(0, 0.3)
BlendNormals == {0 - 4 * NormDen, 0, NormDen}

\* min(abs(np.random.normal(0, 0.3)), 1) in units of 1 / (10 * NormDen)
BlendFactor(z) == Min(3 * (IF z < 0 THEN 0 - z ELSE z), 10 * NormDen)

InitBackground ==
    /\ stage = 0
    /\ characters = MainCharacters
    /\ font_infos = MainFonts
    /\ size_cache = EmptyCache
    /\ background_images = MainBackgrounds
    /\ transform = "None"
    /\ iterator = "suspended"
    /\ pc = "idle"
    /\ low = "none" /\ high = "none" /\ selected = "none" /\ draw = "none"
    /\ drawn_label = -1
    /\ drawn_floating = <<>>
    /\ result = NoResult
    /\ drawing = <<>>
    /\ files = {}
    /\ font_loads = <<>>
    /\ frame = [call |-> "generate_background", returned |-> FALSE]

\* self.generate_background(width, height): the mode is chosen, then the canvas
\* of that mode is built
GenerateBackground ==
    /\ frame.call = "generate_background"
    /\ ~frame.returned
    /\ \E u \in AllDraws :
        LET choice == SeededChoices(u, BackgroundModes, BackgroundWeights)
            call == [call |-> "generate_background", returned |-> TRUE,
                     weights |-> BackgroundWeights, draw |-> u, choice |-> choice]
        IN IF choice = "noise"
           THEN \E v \in AllDraws, z \in BlendNormals :
                \E image \in IF Exceeds(v, 1, 2) THEN random_background_image
                             ELSE {"generated"} :
                    frame' = [call EXCEPT !.draw = <<u, v>>] @@
                             [base |-> IF Exceeds(v, 1, 2) THEN "img" ELSE "plain",
                              image |-> image, alpha |-> BlendFactor(z)]
           ELSE IF choice = "img"
           THEN \E image \in random_background_image :
                    frame' = call @@ [base |-> "img", image |-> image, alpha |-> 0]
           ELSE frame' = call @@ [base |-> "plain", image |-> "generated", alpha |-> 0]
    /\ UNCHANGED <<stage, catalogs, size_cache, iterator, pc, locals, result, drawing,
                   files, font_loads>>

NextBackground == GenerateBackground

SpecBackground == InitBackground /\ [][NextBackground]_vars

----------------------------------------------------------------------------
(* A driver thread that assigns the stage field while a pull is inside          *)
(* generate(): line 542 reads self.stage once, line 544 reads it twice more     *)
(* (the minuend, then the argument of math.floor)                               *)

\* the curriculum values the racing driver writes: negative, whole, fractional
\* ones between every pair of generators, at the last stage and beyond it
RaceStages == {0 - StageDen, 0, 1, 2 * StageDen + 1, 4 * StageDen + 1,
               5 * StageDen + 1, 7 * StageDen + 1, MaxStage * StageDen,
               MaxStageValue * StageDen}

InitRace ==
    /\ stage \in RaceStages
    /\ characters = LoadCharacters
    /\ font_infos = SmallFonts
    /\ size_cache = EmptyCache
    /\ background_images = MainBackgrounds
    /\ transform = "None"
    /\ iterator = "suspended"
    /\ pc = "idle"
    /\ low = "none" /\ high = "none" /\ selected = "none" /\ draw = "none"
    /\ drawn_label = -1
    /\ drawn_floating = <<>>
    /\ result = NoResult
    /\ drawing = <<>>
    /\ files = {}
    /\ font_loads = <<>>
    /\ frame = [call |-> "generate", first |-> stage, minuend |-> stage, writes |-> 0]

\* next(iterator) enters generate(): low = math.floor(self.stage); high = low + 1
\* (GenerateLow, with the value that was read kept for the properties)
RaceLow ==
    /\ pc = "idle"
    /\ iterator = "suspended"
    /\ low' = Floor(stage)
    /\ high' = Floor(stage) + 1
    /\ pc' = "draw"
    /\ result' = NoResult
    /\ drawn_label' = -1
    /\ drawn_floating' = <<>>
    /\ frame' = [call |-> "generate", first |-> stage, minuend |-> stage, writes |-> 0]
    /\ UNCHANGED <<stage, catalogs, size_cache, iterator, selected, draw, drawing, files,
                   font_loads>>

\* line 544, left operand of >: random.random()
RaceDraw ==
    /\ pc = "draw"
    /\ \E u \in SelectionDraws : draw' = u
    /\ pc' = "minuend"
    /\ UNCHANGED <<stage, catalogs, helpers, size_cache, iterator, low, high, selected,
                   drawn_label, drawn_floating, result>>

\* line 544, the minuend: self.stage is read a second time
RaceMinuend ==
    /\ pc = "minuend"
    /\ frame' = [frame EXCEPT !.minuend = stage]
    /\ pc' = "subtrahend"
    /\ UNCHANGED <<stage, catalogs, size_cache, iterator, locals, result, drawing, files,
                   font_loads>>

\* (variant of RaceChoose: low and high are taken from the stage field again)
RaceChooseFromField ==
    /\ pc = "subtrahend"
    /\ selected' = IF draw * StageDen > (frame.minuend - StageDen * Floor(stage)) * UnitDen
                   THEN Floor(stage) ELSE Floor(stage) + 1
    /\ pc' = "clamp"
    /\ UNCHANGED <<stage, catalogs, helpers, size_cache, iterator, low, high, draw,
                   drawn_label, drawn_floating, result>>

\* line 544, the subtrahend math.floor(self.stage), a third read, then the
\* comparison and the assignment of stage = low or stage = high
RaceChoose ==
    /\ pc = "subtrahend"
    /\ selected' = IF draw * StageDen > (frame.minuend - StageDen * Floor(stage)) * UnitDen
                   THEN low ELSE high
    /\ pc' = "clamp"
    /\ UNCHANGED <<stage, catalogs, helpers, size_cache, iterator, low, high, draw,
                   drawn_label, drawn_floating, result>>

\* the driver thread: dataset.stage = s, once, between two reads of the pull
SetStageRacing ==
    /\ pc \in {"draw", "minuend", "subtrahend"}
    /\ frame.writes = 0
    /\ \E s \in RaceStages : stage' = s
    /\ frame' = [frame EXCEPT !.writes = 1]
    /\ UNCHANGED <<catalogs, size_cache, iterator, pc, locals, result, drawing, files,
                   font_loads>>

NextRace ==
    \/ RaceLow
    \/ RaceDraw
    \/ RaceMinuend
    \/ RaceChoose
    \/ SetStageRacing
    \/ GenerateClamp
    \/ GenerateNone
    \/ Yield
    \/ generate_stage_0
    \/ generate_stage_1
    \/ generate_stage_2
    \/ generate_stage_3
    \/ generate_stage_4
    \/ generate_stage_5
    \/ preview_stage_6
    \/ preview_stage_7
    \/ preview_stage_8

SpecRace == InitRace /\ [][NextRace]_vars

----------------------------------------------------------------------------
(* A training driver that creates iterators over one dataset, sets the stage    *)
(* field between pulls and pulls from any of its iterators                      *)

\* the number of iterators the driver creates
MaxIterators == 2

\* the curriculum values the driver writes
DriverStages == {0, 2 * StageDen + 1, 3 * StageDen + 1, 5 * StageDen, 7 * StageDen + 1}

\* frame.created: for each iterator, in creation order, the value the stage
\* field held when iter(dataset) was called; frame.current: the iterator the
\* pull in progress was made on
InitDriver ==
    /\ stage = 0
    /\ characters = LoadCharacters
    /\ font_infos = SmallFonts
    /\ size_cache = EmptyCache
    /\ background_images = MainBackgrounds
    /\ transform = "None"
    /\ iterator = "suspended"
    /\ pc = "idle"
    /\ low = "none" /\ high = "none" /\ selected = "none" /\ draw = "none"
    /\ drawn_label = -1
    /\ drawn_floating = <<>>
    /\ result = NoResult
    /\ drawing = <<>>
    /\ files = {}
    /\ font_loads = <<>>
    /\ frame = [call |-> "driver", created |-> <<0>>, current |-> 1]

\* iterator = iter(dataset): a generator object is created, no line of
\* __iter__ or generate() runs yet
DriverIter ==
    /\ pc = "idle"
    /\ frame.call = "driver"
    /\ Len(frame.created) < MaxIterators
    /\ frame' = [frame EXCEPT !.created = Append(@, stage)]
    /\ UNCHANGED <<stage, catalogs, size_cache, iterator, pc, locals, result, drawing,
                   files, font_loads>>

\* dataset.stage = s, between two pulls
DriverSetStage ==
    /\ pc = "idle"
    /\ frame.call = "driver"
    /\ \E s \in DriverStages : stage' = s
    /\ UNCHANGED <<catalogs, helpers, size_cache, iterator, pc, locals, result>>

\* (variant of DriverPull: the iterator uses the stage its creation saw)
DriverPullCaptured ==
    /\ pc = "idle"
    /\ frame.call = "driver"
    /\ \E i \in 1..Len(frame.created) :
        /\ frame' = [frame EXCEPT !.current = i]
        /\ low' = Floor(frame.created[i])
        /\ high' = Floor(frame.created[i]) + 1
    /\ pc' = "draw"
    /\ result' = NoResult
    /\ drawn_label' = -1
    /\ drawn_floating' = <<>>
    /\ UNCHANGED <<stage, catalogs, size_cache, iterator, selected, draw, drawing, files,
                   font_loads>>

\* next(iterator) on one of the iterators: __iter__ calls self.generate(),
\* which reads self.stage: low = math.floor(self.stage); high = low + 1
DriverPull ==
    /\ pc = "idle"
    /\ frame.call = "driver"
    /\ \E i \in 1..Len(frame.created) :
        /\ frame' = [frame EXCEPT !.current = i]
        /\ low' = Floor(stage)
        /\ high' = Floor(stage) + 1
    /\ pc' = "draw"
    /\ result' = NoResult
    /\ drawn_label' = -1
    /\ drawn_floating' = <<>>
    /\ UNCHANGED <<stage, catalogs, size_cache, iterator, selected, draw, drawing, files,
                   font_loads>>

NextDriver ==
    \/ DriverIter
    \/ DriverSetStage
    \/ DriverPull
    \/ GenerateChoose
    \/ GenerateClamp
    \/ Yield
    \/ generate_stage_0
    \/ generate_stage_1
    \/ generate_stage_2
    \/ generate_stage_3
    \/ generate_stage_4
    \/ generate_stage_5
    \/ preview_stage_6
    \/ preview_stage_7
    \/ preview_stage_8

SpecDriver == InitDriver /\ [][NextDriver]_vars

----------------------------------------------------------------------------
(* The placement of one floating character of stage 8 (lines 499-510) run on    *)
(* its own over text lines of even and odd height at every kind of position     *)

\* the Y of the text line, the height of the text and the box of the floating
\* character that the placement is explored over
PlacementYs == {0 - 1, 0, 1, 2, 3, Center - 1, Center, Center + 1,
                CanvasSize - 1, CanvasSize, CanvasSize + 1}
PlacementBottoms == {0, 1, 2, 3, 7, MinFontSize, CanvasSize - 1, 2 * CanvasSize - 1,
                     2 * CanvasSize, 2 * CanvasSize + 1}
PlacementBoxes == {<<0, 0>>, <<1, 1>>, <<4, MinFontSize>>}

InitPlacement ==
    /\ stage = 0
    /\ characters = MainCharacters
    /\ font_infos = MainFonts
    /\ size_cache = EmptyCache
    /\ background_images = MainBackgrounds
    /\ transform = "None"
    /\ iterator = "suspended"
    /\ pc = "idle"
    /\ low = "none" /\ high = "none" /\ selected = "none" /\ draw = "none"
    /\ drawn_label = -1
    /\ drawn_floating = <<>>
    /\ result = NoResult
    /\ drawing = <<>>
    /\ files = {}
    /\ font_loads = <<>>
    /\ \E y \in PlacementYs, bottom \in PlacementBottoms, box \in PlacementBoxes :
           frame = [call |-> "floating", y |-> y, bottom |-> bottom,
                    f_right |-> box[1], f_bottom |-> box[2], placed |-> FALSE]

\* one pass of the floating loop up to the draw: floating_y from the two tests,
\* `continue` when it is empty, floating_x otherwise
FloatingPlacement ==
    /\ frame.call = "floating"
    /\ ~frame.placed
    /\ LET floating_y == FloatingYRanges(frame.y, frame.bottom, frame.f_bottom)
       IN frame' = [frame EXCEPT !.placed = TRUE] @@
                   [floating_y |-> floating_y,
                    skipped |-> floating_y = <<>>,
                    floating_x |-> IF floating_y = <<>> THEN <<>>
                                   ELSE <<<<0 - frame.f_right, CanvasSize>>>>]
    /\ UNCHANGED <<stage, catalogs, size_cache, iterator, pc, locals, result, drawing,
                   files, font_loads>>

NextPlacement == FloatingPlacement

SpecPlacement == InitPlacement /\ [][NextPlacement]_vars

----------------------------------------------------------------------------
(* generate_stage_7 and generate_stage_8 run on their own with fonts whose      *)
(* glyphs are at most 71 pixels wide and high                                   *)

\* the largest character width and text height the side occlusion is claimed
\* to be safe for
MaxSafeExtent == 71

\* the pixel sizes explored: a middle one and the largest whose glyphs stay
\* within MaxSafeExtent, both odd so that half extents end in .5
SafeSizes == {35, MaxSafeExtent}

\* the labeled character is the widest glyph; the context mixes both widths
SafeCharacters == <<"b">>
SafeFonts == <<[path |-> "F1", supported_glyphs |-> {"a", "b"}]>>

\* the offsets are drawn at both ends of random.random()
generate_stage_7_safe == Stage7(SafeSizes, OffsetDraws, OffsetDraws)
generate_stage_8_safe == Stage8(SafeSizes, OffsetDraws, OffsetDraws)

\* generate() has selected stage 7 or 8 and is about to call its generator
InitSafe ==
    /\ stage \in {7 * StageDen, MaxStage * StageDen}
    /\ characters = SafeCharacters
    /\ font_infos = SafeFonts
    /\ size_cache = EmptyCache
    /\ background_images = MainBackgrounds
    /\ transform = "None"
    /\ iterator = "suspended"
    /\ pc = "dispatch"
    /\ low = Floor(stage) /\ high = Floor(stage) + 1 /\ selected = Floor(stage)
    /\ draw = "none"
    /\ drawn_label = -1
    /\ drawn_floating = <<>>
    /\ result = NoResult
    /\ NoHelpers

NextSafe ==
    \/ generate_stage_7_safe
    \/ generate_stage_8_safe

SpecSafe == InitSafe /\ [][NextSafe]_vars

----------------------------------------------------------------------------
(* Properties *)

\* math.ceil of the fixed-point value n / StageDen
Ceil(n) == 0 - ((0 - n) \div StageDen)

\* the steps generate() and __iter__ take once a pull has entered generate()
PullStep ==
    \/ GenerateChoose \/ GenerateClamp \/ GenerateNone \/ Yield
    \/ generate_stage_0 \/ generate_stage_1 \/ generate_stage_2
    \/ generate_stage_3 \/ generate_stage_4 \/ generate_stage_5
    \/ generate_stage_6 \/ generate_stage_7 \/ generate_stage_8

\* the draw of the line of text of a stage 6..8 sample, or the glyph of a
\* stage 0..5 sample
MainDraw(value) == value.image.draws[1]

\* C1: for the curriculum value s in the stage field and any draw, the integer
\* stage generate() dispatches on lies in [floor(s), min(ceil(s), 8)]
C1_DispatchWithinFloorCeil ==
    pc = "dispatch" => selected \in Floor(stage) .. Min(Ceil(stage), MaxStage)

\* C2: when the curriculum value is an exact integer k in 0..8, every pull
\* runs stage generator k, whatever the draw
C2_IntegerStageRunsItsGenerator ==
    (/\ pc = "returned"
     /\ stage % StageDen = 0
     /\ stage \in 0 .. (MaxStage * StageDen))
    => result.kind = "sample" /\ result.gen * StageDen = stage

\* the reference rule of C3, from the stage field s and the draw u alone
ReferenceStage(s, u) ==
    LET ref_low == s \div StageDen
        ref_high == ref_low + 1
        fraction == s - ref_low * StageDen
        choice == IF u * StageDen > fraction * UnitDen THEN ref_low ELSE ref_high
    IN IF choice > MaxStage THEN MaxStage ELSE choice

\* C3: the stage generate() selects equals the reference rule (low = floor(s),
\* high = low + 1, low if u > s - low else high, then min with 8), and the
\* generator that runs is the one of the selected stage
C3_SelectionMatchesReference ==
    [][/\ (pc = "clamp" /\ pc' = "dispatch")
          => selected' = ReferenceStage(stage, draw)
       /\ (pc = "dispatch" /\ pc' # "dispatch")
          => \/ result'.kind = "None" /\ selected \notin 0..MaxStage
             \/ result'.kind \in {"sample", "error"} /\ result'.gen = selected]_vars

\* witness of C3: a fractional curriculum value whose pull ran the generator
\* of the stage above it
C3_Witness ==
    /\ pc = "returned"
    /\ result.kind = "sample"
    /\ stage % StageDen # 0
    /\ result.gen = Floor(stage) + 1

\* the font_info of the catalog with the given path
FontInfoAt(path) == CHOOSE font_info \in Choices(font_infos) : font_info.path = path

\* C4: the label of a sample is an index into the character set, and the
\* character at that index is in the supported glyphs of the font that
\* rendered the labeled glyph, in the image and in the region score
C4_LabelSupportedByRenderingFont ==
    (pc = "returned" /\ result.kind = "sample")
    => /\ result.label \in 0 .. (Len(characters) - 1)
       /\ MainDraw(result).text[MainDraw(result).label_at] = CharacterAt(result.label)
       /\ result.region_score.text = <<CharacterAt(result.label)>>
       /\ result.region_score.font = MainDraw(result).font
       /\ CharacterAt(result.label)
              \in FontInfoAt(MainDraw(result).font.path).supported_glyphs

\* witness of C4: a stage 8 sample whose labeled glyph was rendered by the
\* second font of the catalog
C4_Witness ==
    /\ pc = "returned"
    /\ result.kind = "sample"
    /\ result.gen = MaxStage
    /\ MainDraw(result).font.path = "F2"
    /\ CharacterAt(result.label) = "b"

\* the widths of the glyphs drawn before position i of a text draw
WidthBefore(d, i) == SumSeq([k \in 1 .. (i - 1) |-> GlyphBBox(d.font, d.text[k])[1]])

\* C5: in stages 6, 7 and 8 the horizontal centre of the labeled character in
\* the image (text start + widths of the preceding glyphs + half its own
\* width) equals the centre 64 + x_offset the region score is drawn at, and
\* the region score marks the labeled character only
C5_RegionScoreCentredOnLabeledGlyph ==
    (pc = "returned" /\ result.kind = "sample" /\ result.gen \in 6..MaxStage)
    => LET d == MainDraw(result)
           r == result.region_score
           own == GlyphBBox(d.font, d.text[d.label_at])[1]
       IN /\ r.text = <<CharacterAt(result.label)>>
          /\ d.text[d.label_at] = CharacterAt(result.label)
          \* 2 * den * (x + before + own / 2) = 2 * den * (64 + x_offset)
          /\ r.xy[1][2] * (2 * d.xy[1][1] + d.xy[1][2] * (2 * WidthBefore(d, d.label_at) + own))
             = 2 * d.xy[1][2] * r.xy[1][1]

\* C6: the region score of every sample is a single-channel canvas of half the
\* 128x128 image canvas, 64x64
C6_RegionScoreHalfResolution ==
    (pc = "returned" /\ result.kind = "sample")
    => /\ result.region_score.mode = "L"
       /\ result.region_score.size = <<CanvasSize \div 2, CanvasSize \div 2>>

\* C7 as stated: the iterator is never exhausted and, for any value of the
\* stage field, a pull yields a triple made by one of the nine stage generators
C7_EveryPullYieldsSample ==
    /\ iterator = "finished" => result.kind = "error"
    /\ pc # "idle" => ENABLED PullStep
    /\ pc = "returned" => result.kind = "sample" /\ result.gen \in 0..MaxStage

\* C7 amended: the same for any value >= 0 of the stage field; the iterator
\* ends only by an error raised inside a stage generator
C7_NonNegativeStageYieldsSample ==
    /\ iterator = "finished" => result.kind = "error"
    /\ (iterator = "suspended" /\ pc = "idle") => ENABLED GenerateLow
    /\ pc # "idle" => ENABLED PullStep
    /\ (pc = "returned" /\ stage >= 0)
       => result.kind = "sample" /\ result.gen \in 0..MaxStage

\* witness of C7: a curriculum value above 8 whose pull yielded a stage 8 sample
C7_Witness ==
    /\ pc = "returned"
    /\ stage > MaxStage * StageDen
    /\ result.kind = "sample"
    /\ result.gen = MaxStage

\* C8: with a transform, the image and the region score of a sample have each
\* been through exactly one transform call of their own and the label through
\* none; without one, both are as the stage generator drew them
C8_TransformOncePerCanvas ==
    (pc = "returned" /\ result.kind = "sample")
    => /\ result.label = drawn_label
       /\ IF transform = "None"
          THEN /\ result.image.transformed = 0
               /\ result.region_score.transformed = 0
               /\ result.transform_calls = <<>>
          ELSE /\ result.image.transformed = 1
               /\ result.region_score.transformed = 1
               /\ result.transform_calls = <<"sample", "region_score">>

\* witness of C8: a stage 6 sample of a dataset built with a transform
C8_Witness ==
    /\ pc = "returned"
    /\ transform = "transform"
    /\ result.kind = "sample"
    /\ result.gen = 6
    /\ result.region_score.transformed = 1

\* C9: every step of a pull leaves the stage field, the character set, the
\* font catalog with its supported glyphs, the background images and the
\* transform unchanged; of the dataset's state only the size cache may change
C9_PullLeavesDatasetUnchanged ==
    [][(pc # "idle" \/ pc' # "idle")
       => UNCHANGED <<stage, characters, font_infos, background_images, transform>>]_vars

\* witness of C9: a sample returned after earlier pulls have put two sizes
\* into the cache of the first font
C9_Witness ==
    /\ pc = "returned"
    /\ result.kind = "sample"
    /\ Cardinality(size_cache["F1"]) >= 2

\* C10: when no font supports the character of the drawn label, the pull ends
\* in the IndexError and ends the iterator without a sample; a sample always
\* carries the label that was drawn
C10_UnsupportedCharacterRaises ==
    drawn_label >= 0
    => /\ fonts_supporting_glyph(CharacterAt(drawn_label)) = <<>>
          => /\ result.kind = "error"
             /\ result.error = "IndexError"
             /\ iterator = "finished"
             /\ pc = "idle"
       /\ result.kind = "sample" => result.label = drawn_label

\* witness of C10: the pull of a stage 4 generator that drew the character no
\* font supports
C10_Witness ==
    /\ drawn_label >= 0
    /\ CharacterAt(drawn_label) = "c"
    /\ result.kind = "error"
    /\ result.gen = 4
    /\ iterator = "finished"

\* the characters of a text draw whose box is empty under the font
ZeroExtentIn(d, font) == ZeroExtent(font, d.text)

\* C11: in stages 6, 7 and 8 a zero-extent character of the composed text (or
\* of the floating characters) halts generation with the diagnostic naming
\* that character and the font, the same way in the three stages; no sample
\* contains such a character
C11_ZeroExtentHaltsWithDiagnostic ==
    (result.kind \in {"sample", "error"} /\ result.gen \in 6..MaxStage)
    => /\ result.kind = "sample"
          => /\ \A i \in 1..Len(result.image.draws) :
                    ZeroExtentIn(result.image.draws[i], MainDraw(result).font) = <<>>
             /\ ZeroExtent(MainDraw(result).font, drawn_floating) = <<>>
       /\ (/\ drawn_label >= 0
           /\ fonts_supporting_glyph(CharacterAt(drawn_label)) # <<>>
           /\ GlyphUnits("F1", CharacterAt(drawn_label)) = 0)
          => /\ result.kind = "error"
             /\ result.error = "exit"
             /\ result.diagnostic = <<CharacterAt(drawn_label), "F1">>

\* a background collection random_background_image can crop from: not empty,
\* every image at least two pixels in each dimension
UsableBackgrounds ==
    /\ background_images # <<>>
    /\ \A i \in 1..Len(background_images) :
           background_images[i][1] >= 2 /\ background_images[i][2] >= 2

\* C12: an empty or degenerate background collection fails the construction of
\* the dataset, so whenever a pull of a constructed dataset fails the
\* collection is a usable one
C12_BackgroundFailuresAtConstruction ==
    (pc # "new" /\ result.kind = "error") => UsableBackgrounds

\* the draws of the floating characters on a stage 8 sample
FloatingDraws(value) == SubSeq(value.image.draws, 2, Len(value.image.draws))

\* whether the band of the text line d leaves room above it, and below it
RoomAbove(d) == 2 * d.xy[2] - TextBBox(d.font, d.text)[2] > 0
RoomBelow(d) == 2 * CanvasSize > 2 * d.xy[2] + TextBBox(d.font, d.text)[2]

\* the region score stage 8 returns for the text line d with no floating
\* character at all: the labeled glyph alone, at (64 + x_offset, 64 + y_offset)
RegionScoreOfLine(d) ==
    LET total_count == Len(d.text)
        right == TextBBox(d.font, d.text)[1]
        \* 64 + x_offset = x + character_width / 2 + character_width * before_count
        centre == (d.xy[1][1] + right + 2 * right * (d.label_at - 1)) \div (2 * total_count)
    IN generate_only_char(<<<<centre, 1>>, d.xy[2]>>, d.text[d.label_at], d.font)

C14_Stage8WithoutExtrasMatchesStage7 ==
    (/\ frame.call = "seeded"
     /\ frame.stage_7 # NoRun /\ frame.stage_8 # NoRun
     /\ frame.stage_8.floating_count = 0
     /\ frame.stage_8.effect = "none"
     /\ frame.stage_7.effect = "none")
    => frame.stage_7 = frame.stage_8

\* witness of C14: both generators have run from one seed, stage 8 drew no
\* floating character and no effect, and the line has a context character
C14_Witness ==
    /\ frame.call = "seeded"
    /\ frame.stage_7 # NoRun /\ frame.stage_8 # NoRun
    /\ frame.stage_8.floating_count = 0
    /\ frame.stage_8.effect = "none"
    /\ frame.stage_7.effect = "none"
    /\ Len(frame.stage_8.text) > 1
    /\ frame.stage_8.font.path = "F2"

\* the stage generate() runs for the stage field s and the draw u
SelectedStage(s, u) == ClampStage(IF DrawExceeds(s, u) THEN Floor(s) ELSE Floor(s) + 1)

\* the draws of the uniform grid 0/UnitDen .. (UnitDen-1)/UnitDen that select k
DrawsSelecting(s, k) == {u \in 0..(UnitDen - 1) : SelectedStage(s, u) = k}

\* C15: for a curriculum value s in [0, 8] the share of the uniform grid of
\* draws that selects floor(s) + 1 is the fractional part of s, the share that
\* selects floor(s) is one minus it, and the mean selected stage is s
C15_ExpectedStageEqualsCurriculum ==
    stage \in 0 .. (MaxStage * StageDen)
    => LET fraction == stage - StageDen * Floor(stage)
           highs == Cardinality(DrawsSelecting(stage, Floor(stage) + 1))
           lows == Cardinality(DrawsSelecting(stage, Floor(stage)))
       IN /\ highs * StageDen = fraction * UnitDen
          /\ lows * StageDen = (StageDen - fraction) * UnitDen
          /\ (lows * Floor(stage) + highs * (Floor(stage) + 1)) * StageDen = stage * UnitDen

\* the position in loads of the first parse of (path, size)
FirstLoad(loads, path, size) ==
    LET at == {i \in 1..Len(loads) : loads[i] = <<path, size>>}
    IN IF at = {} THEN 0 ELSE CHOOSE i \in at : \A k \in at : i <= k

\* C16: a request for a (font, size) pair returns the handle made by the first
\* request for that pair, whatever was requested in between, and a request
\* only adds the requested size to the cache of the requested font
C16_SameHandleForSameFontAndSize ==
    [][/\ \A path \in DOMAIN size_cache : size_cache[path] \subseteq size_cache'[path]
       /\ frame'.call = "get"
          => /\ frame'.load > 0
             /\ frame'.load = FirstLoad(font_loads', frame'.path, frame'.size)
             /\ frame'.font = [path |-> frame'.path, size |-> frame'.size]
             /\ size_cache'[frame'.path] = size_cache[frame'.path] \cup {frame'.size}
             /\ \A path \in DOMAIN size_cache \ {frame'.path} :
                    size_cache'[path] = size_cache[path]]_vars

\* witness of C16: the pair requested first is requested again after two other
\* pairs and comes with the handle of its first request
C16_Witness ==
    /\ frame.call = "get"
    /\ Len(font_loads) >= 3
    /\ font_loads[1] = <<frame.path, frame.size>>
    /\ frame.load = 1

\* the number of pulls the preview has completed
PreviewPulls ==
    IF frame.call = "preview" THEN PreviewCount * frame.stage + frame.i
    ELSE PreviewCount * frame.done

\* C17: the preview goes through the stages 0..8 in order; in the folder of
\* stage k the stage field is k and exactly PreviewCount samples are pulled;
\* every sample is written as an image file and a region score file named by
\* the stage folder, the running index and the character at its label, and no
\* write goes to a file that already exists
C17_PreviewWritesCountSamplesPerStage ==
    [][/\ frame'.call = "preview"
          => /\ stage' = frame'.stage * StageDen
             /\ frame'.stage \in 0..MaxStage
             /\ frame'.i \in 0..PreviewCount
             /\ pc' # "idle" => frame'.i < PreviewCount
       /\ (frame'.call = "preview" \/ (frame'.call = "main" /\ frame'.cleaned))
          => Cardinality(files') = 2 * PreviewPulls'
       /\ (pc = "returned" /\ pc' = "idle")
          => /\ \A f \in PreviewFiles(frame.stage, frame.i, CharacterAt(result.label)) :
                    f \notin files /\ f \in files'
             /\ files \subseteq files'
             /\ frame'.i = frame.i + 1
       /\ (frame.call = "preview" /\ frame'.call = "main")
          => /\ frame.i = PreviewCount /\ frame'.done = frame.stage + 1
             /\ \A f \in files' : /\ f.stage \in 0..frame.stage
                                   /\ f.i \in 0..(PreviewCount - 1)]_vars

\* witness of C17: the preview has returned from its ninth call of generate
C17_Witness ==
    /\ frame.call = "main"
    /\ frame.done = MaxStage + 1
    /\ Cardinality(files) = 2 * PreviewCount * (MaxStage + 1)

\* the columns and the rows of the canvas that drawing.rectangle(xy0, xy1) fills:
\* both corners are included and the corners may come in either order
RectangleColumns(rect) ==
    {x \in 0..(CanvasSize - 1) :
        Min(rect.xy0[1], rect.xy1[1]) <= x /\ x <= Max(rect.xy0[1], rect.xy1[1])}

RectangleRows(rect) ==
    {y \in 0..(CanvasSize - 1) :
        Min(rect.xy0[2], rect.xy1[2]) <= y /\ y <= Max(rect.xy0[2], rect.xy1[2])}

\* the columns and the rows strictly inside the supplied box
ColumnsInside == {x \in 0..(CanvasSize - 1) :
                     frame.left < x * BoxDen /\ x * BoxDen < frame.right}

RowsInside == {y \in 0..(CanvasSize - 1) :
                  frame.top < y * BoxDen /\ y * BoxDen < frame.bottom}

\* C18: once eat_sides has run on a box within the canvas, its four rectangles
\* reach from the left, right, top and bottom edge of the canvas no further
\* than the supplied left, right, top and bottom, and no pixel strictly inside
\* the supplied box is covered by a rectangle
C18_EatSidesSparesTheBox ==
    (frame.call = "eat_sides" /\ drawing # <<>>)
    => /\ Len(drawing) = 4
       /\ drawing[1].xy1[1] * BoxDen <= frame.left
       /\ drawing[2].xy1[1] * BoxDen >= frame.right
       /\ drawing[3].xy1[2] * BoxDen <= frame.top
       /\ drawing[4].xy1[2] * BoxDen >= frame.bottom
       /\ \A k \in 1..4 :
             \/ RectangleColumns(drawing[k]) \cap ColumnsInside = {}
             \/ RectangleRows(drawing[k]) \cap RowsInside = {}

\* whether a glyph of height h drawn with its top at top_y stays clear of the
\* band [y - bottom / 2, y + bottom / 2] of the text line d: it ends at or above
\* the top of the band, or starts at or below its bottom
ClearOfBand(d, top_y, h) ==
    LET bottom == TextBBox(d.font, d.text)[2]
    IN \/ 2 * (top_y + h) <= 2 * d.xy[2] - bottom
       \/ 2 * top_y >= 2 * d.xy[2] + bottom

\* C19: on a stage 8 sample every floating character that is drawn, at whichever
\* Y its range allows and with the height of the font it is drawn with, stays
\* clear of the band of the text line, and its X is drawn from [-f_right, 128]
C19_FloatingClearOfTextBand ==
    (pc = "returned" /\ result.kind = "sample" /\ result.gen = MaxStage)
    => LET d == MainDraw(result)
           floating == FloatingDraws(result)
       IN \A i \in 1..Len(floating) :
            LET f == floating[i]
            IN /\ \A k \in 1..Len(f.y_ranges) :
                    \A top_y \in f.y_ranges[k][1]..f.y_ranges[k][2] :
                        ClearOfBand(d, top_y, TextBBox(f.font, f.text)[2])
               /\ f.x_range = <<0 - TextBBox(f.measured, f.text)[1], CanvasSize>>

\* the draws of drawing that are made with the outline color at position xy
OutlineDrawsAt(xy) ==
    {k \in 1..Len(drawing) : drawing[k].fill = "outline_fill" /\ drawing[k].xy = xy}

\* C20: once draw_outlined_text has returned with thickness t, the text has been
\* drawn (2t+1)^2 times in the outline color, exactly once at each offset
\* (dx, dy) with -t <= dx, dy <= t and nowhere else, and once in the foreground
\* color, at xy, as the last draw; a thickness that was not given is at least 1
C20_OutlineSquareThenForeground ==
    (frame.call = "draw_outlined_text" /\ frame.returned)
    => LET t == frame.outline_thickness[1]
           side == 2 * t + 1
           last == drawing[Len(drawing)]
       IN /\ Len(drawing) = side * side + 1
          /\ Cardinality({k \in 1..Len(drawing) : drawing[k].fill = "outline_fill"})
                = side * side
          /\ \A dx \in (0 - t)..t, dy \in (0 - t)..t :
                 Cardinality(OutlineDrawsAt(<<frame.xy[1] + dx, frame.xy[2] + dy>>)) = 1
          /\ Cardinality({k \in 1..Len(drawing) : drawing[k].fill = "fill"}) = 1
          /\ last.fill = "fill"
          /\ last.xy = frame.xy
          /\ frame.default => t >= 1

\* witness of C20: a call without outline_thickness has returned after drawing
\* an outline of default thickness 2, twenty-five outline draws and the text
C20_Witness ==
    /\ frame.call = "draw_outlined_text"
    /\ frame.returned
    /\ frame.default
    /\ frame.outline_thickness = <<2>>
    /\ Len(drawing) = 26

\* C21: for a stored image at least 2 pixels wide and high, random_background_image
\* returns without error and its crop box satisfies 0 <= left < right <= width
\* and 0 <= top < bottom <= height
C21_CropBoxInsideImage ==
    (/\ frame.call = "random_background_image"
     /\ frame.returned
     /\ frame.background[1] >= 2
     /\ frame.background[2] >= 2)
    => /\ frame.raised = "none"
       /\ 0 <= frame.box[1] /\ frame.box[1] < frame.box[3]
       /\ frame.box[3] <= frame.background[1]
       /\ 0 <= frame.box[2] /\ frame.box[2] < frame.box[4]
       /\ frame.box[4] <= frame.background[2]

\* witness of C21: on an image 2 x 2 the crop box of the one pixel at the origin
C21_Witness ==
    /\ frame.call = "random_background_image"
    /\ frame.returned
    /\ frame.background = <<2, 2>>
    /\ frame.raised = "none"
    /\ frame.box = <<0, 0, 1, 1>>

\* C22: the font of the labeled glyph of a sample has pixel size 32 in stages 0
\* to 2, 20 or 32 in stage 3 and a whole size of at least 8 in stages 4 to 8, and
\* so has every font a floating character of stage 8 is measured or drawn with
C22_FontSizesPerStage ==
    (pc = "returned" /\ result.kind = "sample")
    => LET size == MainDraw(result).font.size
       IN /\ result.gen \in 0..2 => size = FixedFontSize
          /\ result.gen = 3 => size \in {SmallFontSize, FixedFontSize}
          /\ result.gen \in 4..MaxStage => size \in Nat /\ size >= MinFontSize
          /\ result.gen = MaxStage
             => \A i \in 1..Len(FloatingDraws(result)) :
                   /\ FloatingDraws(result)[i].measured.size \in Nat
                   /\ FloatingDraws(result)[i].measured.size >= MinFontSize
                   /\ FloatingDraws(result)[i].font.size \in Nat
                   /\ FloatingDraws(result)[i].font.size >= MinFontSize

\* witness of C22: a stage 8 sample whose raw size -3 was raised to 8 and whose
\* floating character was measured at size 50
C22_Witness ==
    /\ pc = "returned"
    /\ result.kind = "sample"
    /\ result.gen = MaxStage
    /\ 0 - 3 \in RawSizesOfNormals
    /\ MainDraw(result).font.size = MinFontSize
    /\ FloatingDraws(result) # <<>>
    /\ FloatingDraws(result)[1].measured.size = 50

\* the absolute value of the integer n
Magnitude(n) == IF n < 0 THEN 0 - n ELSE n

\* C23: on a stage 5 sample the offsets of the glyph are at most 0.4 of its
\* measured width and height in absolute value, so the centre of the canvas lies
\* within the box of that width and height centred on the glyph's position
C23_Stage5OffsetKeepsCentreInside ==
    (pc = "returned" /\ result.kind = "sample" /\ result.gen = 5)
    => LET d == MainDraw(result)
           width == GlyphBBox(d.font, d.text[1])[1]
           height == GlyphBBox(d.font, d.text[1])[2]
           x_offset == d.xy[1][1] - Center * d.xy[1][2]
           y_offset == d.xy[2] - Center
       IN /\ d.xy[1][2] = 1
          /\ 5 * Magnitude(x_offset) <= 2 * width
          /\ 5 * Magnitude(y_offset) <= 2 * height
          /\ 2 * (Center + x_offset) - width <= 2 * Center
          /\ 2 * Center <= 2 * (Center + x_offset) + width
          /\ 2 * (Center + y_offset) - height <= 2 * Center
          /\ 2 * Center <= 2 * (Center + y_offset) + height

\* witness of C23: a stage 5 sample of the glyph 50 wide and high, drawn at its
\* largest offsets (20, -18)
C23_Witness ==
    /\ pc = "returned"
    /\ result.kind = "sample"
    /\ result.gen = 5
    /\ MainDraw(result).font.size = 50
    /\ MainDraw(result).text = <<"b">>
    /\ MainDraw(result).xy = <<<<Center + 20, 1>>, Center - 18>>

\* C24: generate_background chooses its mode with unequal weights: the weight of
\* "noise" is the largest, that of "img" the second and that of "plain" the
\* smallest
C24_BackgroundModeWeightsOrdered ==
    (frame.call = "generate_background" /\ frame.returned)
    => /\ frame.weights[1] > frame.weights[2]
       /\ frame.weights[2] > frame.weights[3]

\* C25: the region score of every sample, whichever stage generated it, is the
\* canvas generate_only_char drew the glyph on, transformed or not, and never
\* the canvas generate_region_score filled a rectangle on
C25_ReturnedRegionScoreIsGlyphShaped ==
    (pc = "returned" /\ result.kind = "sample")
    => /\ result.gen \in 0..MaxStage
       /\ result.region_score.shape = "glyph"
       /\ result.region_score.shape # generate_region_score(CanvasSize, CanvasSize).shape
       /\ [result.region_score EXCEPT !.transformed = 0]
            = generate_only_char(result.region_score.xy, CharacterAt(result.label),
                                 MainDraw(result).font)

\* witness of C25: a stage 8 sample returned through the transform
C25_Witness ==
    /\ pc = "returned"
    /\ result.kind = "sample"
    /\ result.gen = MaxStage
    /\ result.region_score.shape = "glyph"
    /\ result.region_score.transformed = 1

\* the stage field was assigned between two reads of the pull in progress
RacedPull == frame.call = "generate" /\ frame.writes = 1 /\ pc = "dispatch"

\* C26 as stated: when the driver assigns the stage field between the reads of
\* self.stage of a pull, the stage that pull dispatches lies in
\* [floor(s), min(floor(s) + 1, 8)] for s the old or the new curriculum value
C26_RacedDispatchWithinFloorPlusOne ==
    RacedPull
    => \E s \in {frame.first, stage} :
          selected \in Floor(s) .. Min(Floor(s) + 1, MaxStage)

\* C26 amended: the stage a raced pull dispatches is floor(s) or floor(s) + 1,
\* clamped to 8, for s the curriculum value the pull read first
C26_RacedDispatchClampedFromFirstRead ==
    RacedPull
    => selected \in Min(Floor(frame.first), MaxStage) .. Min(Floor(frame.first) + 1, MaxStage)

\* witness of C26: the field held 7.5 at the first read and 0 afterwards, and
\* the pull dispatches stage 8
C26_Witness ==
    /\ RacedPull
    /\ frame.first = 7 * StageDen + 1
    /\ stage = 0
    /\ selected = MaxStage

\* C27: every pull, on whichever iterator and whenever that iterator was created,
\* takes low and high from the value the stage field holds at the pull, and the
\* stage it dispatches is that low or high, clamped to 8
C27_PullReadsStageField ==
    (frame.call = "driver" /\ pc \in {"draw", "clamp", "dispatch"})
    => /\ low = Floor(stage)
       /\ high = Floor(stage) + 1
       /\ pc = "dispatch"
          => selected \in {ClampStage(Floor(stage)), ClampStage(Floor(stage) + 1)}

\* witness of C27: the first iterator was created at stage 0, the second at
\* stage 5; the field was then set to 7.5 and a pull on the first iterator
\* dispatches stage 7
C27_Witness ==
    /\ frame.call = "driver"
    /\ frame.created = <<0, 5 * StageDen>>
    /\ frame.current = 1
    /\ stage = 7 * StageDen + 1
    /\ pc = "dispatch"
    /\ selected = 7

\* C28: in the placement of a floating character every Y-range that is used has
\* its lower bound at or below its upper bound, the range above is the one from
\* -f_bottom to y - bottom // 2 - f_bottom, the range below the one from
\* y + bottom // 2 to 128, the X-range is not empty, and the character is
\* skipped exactly when y - bottom / 2 <= 0 and y + bottom / 2 >= 128
C28_FloatingRangesNeverEmpty ==
    (frame.call = "floating" /\ frame.placed)
    => LET above == 2 * frame.y - frame.bottom > 0
           below == 2 * CanvasSize > 2 * frame.y + frame.bottom
       IN /\ \A k \in 1..Len(frame.floating_y) :
                 frame.floating_y[k][1] <= frame.floating_y[k][2]
          /\ above => /\ frame.floating_y[1][1] = 0 - frame.f_bottom
                      /\ frame.floating_y[1][2]
                           = frame.y - (frame.bottom \div 2) - frame.f_bottom
          /\ below => /\ frame.floating_y[Len(frame.floating_y)][1]
                           = frame.y + (frame.bottom \div 2)
                      /\ frame.floating_y[Len(frame.floating_y)][2] = CanvasSize
          /\ Len(frame.floating_y) = (IF above THEN 1 ELSE 0) + (IF below THEN 1 ELSE 0)
          /\ \A k \in 1..Len(frame.floating_x) :
                 frame.floating_x[k][1] <= frame.floating_x[k][2]
          /\ frame.skipped <=> (~above /\ ~below)
          /\ ~frame.skipped => Len(frame.floating_x) = 1

\* witness of C28: a text line one pixel high at y = 1: the test above passes
\* by half a pixel (0.5 > 0), and both ranges are used
C28_Witness ==
    /\ frame.call = "floating"
    /\ frame.placed
    /\ frame.y = 1
    /\ frame.bottom = 1
    /\ frame.f_bottom = MinFontSize
    /\ frame.floating_y = <<<<0 - MinFontSize, 1 - MinFontSize>>, <<1, CanvasSize>>>>

\* C29: a stage 7 or stage 8 pull whose character width and text height are at
\* most 71 never fails in eat_sides, and when the sample was eaten the rounded
\* box lies inside the canvas, 0 <= left <= right <= 128 and
\* 0 <= top <= bottom <= 128, so that each of the four randint ranges is not empty
C29_EatBoxInsideCanvas ==
    /\ (result.kind = "error" /\ result.gen \in {7, MaxStage})
       => result.error # "ValueError"
    /\ (result.kind = "sample" /\ result.gen \in {7, MaxStage})
       => LET d == MainDraw(result)
              right == TextBBox(d.font, d.text)[1]
              bottom == TextBBox(d.font, d.text)[2]
          IN (/\ right <= MaxSafeExtent * Len(d.text)
              /\ bottom <= MaxSafeExtent
              /\ result.image.eaten # <<>>)
             => LET eaten == result.image.eaten[1]
                IN /\ eaten.left[1] = 0 /\ 0 <= eaten.left[2]
                   /\ eaten.left[2] <= eaten.right[1]
                   /\ eaten.right[1] <= CanvasSize /\ eaten.right[2] = CanvasSize
                   /\ eaten.top[1] = 0 /\ 0 <= eaten.top[2]
                   /\ eaten.top[2] <= eaten.bottom[1]
                   /\ eaten.bottom[1] <= CanvasSize /\ eaten.bottom[2] = CanvasSize

\* witness of C29: an eaten stage 7 sample of the glyph 71 wide and high at its
\* largest offsets, whose box reaches the canvas edge: right = 128
C29_Witness ==
    /\ pc = "returned"
    /\ result.kind = "sample"
    /\ result.gen = 7
    /\ MainDraw(result).font.size = MaxSafeExtent
    /\ MainDraw(result).text = <<"b">>
    /\ result.image.eaten # <<>>
    /\ result.image.eaten[1].right = <<CanvasSize, CanvasSize>>

\* the glyphs supported by the font file from which the font object was loaded
GlyphsOfFont(font) ==
    UNION {font_infos[i].supported_glyphs
           : i \in {k \in 1..Len(font_infos) : font_infos[k].path = font.path}}

\* C30: on a stage 8 sample every floating character is drawn with the font
\* object, file and pixel size, that was measured for its placement ranges, in
\* the outlined branch and in the plain one, and that font supports the character
C30_FloatingDrawnWithMeasuredFont ==
    (pc = "returned" /\ result.kind = "sample" /\ result.gen = MaxStage)
    => LET floating == FloatingDraws(result)
       IN \A i \in 1..Len(floating) :
            /\ floating[i].font = floating[i].measured
            /\ floating[i].text[1] \in GlyphsOfFont(floating[i].font)

====
